---- MODULE Spec2Model ----
(***************************************************************************)
(* Ledger of backend.py (Sistema CxC): the Facturas and Abonos worksheets  *)
(* and the request handlers that read and write them.                      *)
(*                                                                         *)
(* Amounts are exact multiples of half a cent (0.005), so the tolerance of *)
(* 0.01 that add_abono applies is Tol = 2 units and amounts strictly       *)
(* inside the tolerance exist.  A worksheet is the sequence of its data    *)
(* rows in sheet order; a numeric cell that was never written is the empty *)
(* sequence << >>, a written one is <<n>>.  An id is the clock reading at  *)
(* which it was issued.  A text is the sequence of its characters; a Notas *)
(* cell is the sequence of the notes that ' | ' separates in it.           *)
(***************************************************************************)
EXTENDS Integers, Sequences, FiniteSets, TLC

VARIABLES
    facturas,    \* rows of worksheet 'Facturas'
    abonos,      \* rows of worksheet 'Abonos'
    reloj,       \* datetime.now(), as the number of ids issued so far
    ultima,      \* the last completed request: handler, status, row, arguments
    ida_vuelta,  \* history: the invoice row as it was before the latest abono
    ajustes,     \* requests served that changed the sheet at a clock reading already counted
    pc,          \* position of each concurrent add_abono request
    loc,         \* local variables of each concurrent add_abono request
    version,     \* history: writes made to TotalAbonado cells by concurrent requests
    identidad,   \* rol of the token the request being served carries, or none
    clientes,    \* rows of worksheet 'Clientes'
    negocios,    \* the businesses that load_negocios returns, in order
    current_sheet_id,   \* the global of that name
    hojas,       \* with several businesses: the 'Facturas' rows of each spreadsheet
    sesion,      \* history: per user, what the latest activar_negocio answered
    conversion   \* a text handed to parse_number and, once it returned, the result

vars == <<facturas, abonos, reloj, ultima, ida_vuelta, ajustes, pc, loc, version, identidad,
          clientes, negocios, current_sheet_id, hojas, sesion, conversion>>

\* The businesses and their spreadsheets.
multi == <<negocios, current_sheet_id, hojas, sesion>>

\* What the handlers of the Facturas and Abonos worksheets leave alone.
fuera == <<clientes, multi, conversion>>

(*------------------------------ bounds ---------------------------------*)
MaxPeticiones == 3   \* requests served that create an invoice, register an abono or
                     \* adjust an invoice (update, pago, compensar) in one behaviour
MaxMonto == 4        \* largest payment amount requested
MaxSobrepago == 1    \* registrar_pago stops lowering MontoCobrar below -MaxSobrepago
NumHilos == 2        \* concurrent add_abono requests
NumPrevias == 2      \* documents the sheet holds when the compensations start
MaxFallas == 2       \* store calls that fail on one add_abono request and its retries
MaxLargo == 5        \* longest text handed to parse_number

Totales == {4}       \* totalFactura values submitted
Rebajos == {0, 1}    \* corfoga / otrosRebajos values submitted
Hilos == 1..NumHilos
MontosCompensar == {0, 1}   \* montoCompensar values submitted (0: not given)

(*--------------------------- program constants -------------------------*)
Tol == 2             \* 0.01, in units of 0.005
BaseLote == 100      \* str(i).zfill(4) after the clock reading: 10^4, scaled down

NoID == 0            \* an empty id cell ('')
Vacia == << >>       \* an empty numeric cell
Hoy == "hoy"         \* datetime.now().strftime('%Y-%m-%d')
Fechas == {Hoy}      \* fechaPago values submitted
SinNotas == << >>    \* an empty Notas cell ('')
\* A sequence code: six characters, the document code "0" tipo, and a serial.
Codigo(tipo, serie) == <<"1", "0", "0", "0", "0", "1", "0", tipo, serie>>
ConsecutivoFAC == Codigo("1", "7")   \* an invoice's code
ConsecutivoNC == Codigo("3", "7")    \* a credit note's
SinFecha == << >>    \* an empty date cell ('')
SinTexto == << >>    \* an empty text cell or request field ('')
Texto == "texto"     \* the text of a note that a request carries

(*------------------------------ helpers --------------------------------*)
parse_number(value) == IF value = Vacia THEN 0 ELSE value[1]

Max0(x) == IF x > 0 THEN x ELSE 0

Num(n) == <<n>>

\* Optional request field: absent, or present with a value of S.
Opcional(S) == {Vacia} \cup {Num(v) : v \in S}

\* gspread Worksheet.find: the first cell, in row-major order, whose value is
\* the query.  Of the Facturas columns the ones that hold ids are ID (1) and
\* DocumentoRelacionado (18).  0 when no cell matches.
FindFactura(q) ==
    LET hits == {i \in 1..Len(facturas) :
                    facturas[i].ID = q \/ facturas[i].DocumentoRelacionado = q}
    IN  IF hits = {} THEN 0 ELSE CHOOSE i \in hits : \A j \in hits : i <= j

\* The same over Abonos, whose id columns are ID (1) and FacturaID (2).
FindAbono(q) ==
    LET hits == {i \in 1..Len(abonos) :
                    abonos[i].ID = q \/ abonos[i].FacturaID = q}
    IN  IF hits = {} THEN 0 ELSE CHOOSE i \in hits : \A j \in hits : i <= j

\* Worksheet.delete_rows(row)
DeleteRow(s, row) == [i \in 1..(Len(s) - 1) |-> IF i < row THEN s[i] ELSE s[i + 1]]

\* What is kept of a completed request: the handler, the HTTP status, the
\* invoice row it resolved (0: none) and, for add_abono, whether the amount
\* asked for would take TotalAbonado beyond MontoCobrar + 0.01.
\* For compensar_documentos also: the ids and the amount of the request, the
\* row resolved for the credit note and the montoCompensado of the answer.
SinCompensar == [nc_id |-> NoID, factura_id |-> NoID, row_nc |-> 0,
                 monto_pedido |-> 0, montoCompensado |-> 0]

\* For get_antiguedad_cartera also: the day of the request and the report.
SinCategoria == [facturas |-> << >>, total |-> 0, cantidad |-> 0]

SinReporte ==
    [hoy |-> 0,
     cartera |-> [corriente |-> SinCategoria, dias_31_60 |-> SinCategoria,
                  dias_61_90 |-> SinCategoria, dias_90_mas |-> SinCategoria],
     totalCartera |-> 0,
     facturasPendientes |-> 0]

\* For the aging exports and the dashboard also: the day of the request (in
\* reporte.hoy) and the balance added up under each category.
SinTotales == [corriente |-> 0, dias_31_60 |-> 0, dias_61_90 |-> 0, dias_90_mas |-> 0]

\* For add_abono, update_factura and registrar_pago also: the id asked for.
\* For the business handlers also: the id of the request, the user it came
\* from (0: not kept) and, for a ledger operation, the spreadsheet opened.
\* For the portal handlers also: the token of the request, the ID of the
\* client whose data the answer carries ('' when it carries none), the
\* documents listed, each with the ClienteID of its row, and the total.
SinPortal == [token |-> SinTexto, cliente |-> SinTexto, documentos |-> {},
              totalPendiente |-> 0]

Respuesta(op, status, row, excede) ==
    [op |-> op, status |-> status, row |-> row, excede |-> excede,
     compensar |-> SinCompensar, reporte |-> SinReporte, portal |-> SinPortal,
     negocio_id |-> NoID, usuario |-> 0, hoja |-> "", factura_id |-> NoID,
     totales |-> SinTotales]

SinIdaVuelta == [fase |-> "ninguna", row |-> 0, id |-> NoID,
                 TotalAbonado |-> 0, Saldo |-> 0, Estado |-> ""]

\* saldoPendiente as get_facturas reports it.
saldoPendiente(f) ==
    IF parse_number(f.SaldoPendiente) # 0
    THEN parse_number(f.SaldoPendiente)
    ELSE f.MontoCobrar - parse_number(f.TotalAbonado)

\* totalAbonado as get_abonos_factura reports it.
RECURSIVE SumaMontos(_, _)
SumaMontos(rows, factura_id) ==
    IF rows = << >> THEN 0
    ELSE (IF Head(rows).FacturaID = factura_id THEN Head(rows).Monto ELSE 0)
         + SumaMontos(Tail(rows), factura_id)

get_abonos_factura(factura_id) == SumaMontos(abonos, factura_id)

(*----------------------- parse_number, of a text -----------------------*)
(* A number is num / 10^exp with the fraction's trailing zeros dropped, so *)
(* that equal numbers are equal records.                                   *)
DigitosEnOrden == <<"0", "1", "2", "3", "4", "5", "6", "7", "8", "9">>

EsDigito(c) == \E n \in 1..10 : DigitosEnOrden[n] = c

ValorDigito(c) == (CHOOSE n \in 1..10 : DigitosEnOrden[n] = c) - 1

RECURSIVE ValorDigitos(_)
ValorDigitos(t) ==
    IF t = << >> THEN 0 ELSE 10 * ValorDigitos(SubSeq(t, 1, Len(t) - 1)) + ValorDigito(t[Len(t)])

RECURSIVE SinCerosFinales(_)
SinCerosFinales(t) ==
    IF t # << >> /\ t[Len(t)] = "0" THEN SinCerosFinales(SubSeq(t, 1, Len(t) - 1)) ELSE t

Cero == [num |-> 0, exp |-> 0]

\* The number with the integer digits and fraction digits given.
Decimal(negativo, entero, fraccion) ==
    LET f == SinCerosFinales(fraccion)
        n == ValorDigitos(entero \o f)
    IN  [num |-> IF negativo THEN 0 - n ELSE n, exp |-> IF n = 0 THEN 0 ELSE Len(f)]

Contiene(t, c) == \E i \in 1..Len(t) : t[i] = c

\* str.rfind(c): the last position of c, from 0; -1 when there is none.
rfind(t, c) ==
    IF Contiene(t, c) THEN (CHOOSE i \in 1..Len(t) : t[i] = c /\ \A j \in (i + 1)..Len(t) : t[j] # c) - 1
    ELSE 0 - 1

\* str.find(c)
find(t, c) ==
    IF Contiene(t, c) THEN (CHOOSE i \in 1..Len(t) : t[i] = c /\ \A j \in 1..(i - 1) : t[j] # c) - 1
    ELSE 0 - 1

\* s.replace(c, '')
RECURSIVE Quitar(_, _)
Quitar(t, c) ==
    IF t = << >> THEN << >>
    ELSE (IF Head(t) = c THEN << >> ELSE <<Head(t)>>) \o Quitar(Tail(t), c)

\* s.replace(c, d)
Reemplazar(t, c, d) == [i \in 1..Len(t) |-> IF t[i] = c THEN d ELSE t[i]]

\* The characters kept: digits, '.', ',' and '-'.
RECURSIVE Limpio(_)
Limpio(t) ==
    IF t = << >> THEN << >>
    ELSE (IF EsDigito(Head(t)) \/ Head(t) \in {".", ",", "-"} THEN <<Head(t)>> ELSE << >>)
         \o Limpio(Tail(t))

\* float(s) for a text of digits, '.' and '-': an optional sign, digits
\* with at most one point among them and at least one digit; NoEsNumero
\* stands for the ValueError.
NoEsNumero == [num |-> 0, exp |-> 0 - 1]

float(t) ==
    LET negativo == t # << >> /\ Head(t) = "-"
        u == IF negativo THEN Tail(t) ELSE t
        puntos == {i \in 1..Len(u) : u[i] = "."}
        p == IF puntos = {} THEN Len(u) + 1 ELSE CHOOSE i \in puntos : TRUE
    IN  IF /\ Cardinality(puntos) <= 1
           /\ \A i \in 1..Len(u) : EsDigito(u[i]) \/ u[i] = "."
           /\ \E i \in 1..Len(u) : EsDigito(u[i])
        THEN Decimal(negativo, SubSeq(u, 1, p - 1), SubSeq(u, p + 1, Len(u)))
        ELSE NoEsNumero

\* Mutation: with both separators, the one that occurs first decides.
ComaEsDecimalPrimera(t) == find(t, ",") < find(t, ".")

\* last_comma > last_dot
ComaEsDecimal(t) == rfind(t, ",") > rfind(t, ".")

\* The text that parse_number hands to float.
SeparadoresResueltos(t) ==
    IF Contiene(t, ",") /\ Contiene(t, ".")
    THEN IF ComaEsDecimal(t)
         THEN Reemplazar(Quitar(t, "."), ",", ".")
         ELSE Quitar(t, ",")
    ELSE IF Contiene(t, ",") THEN Reemplazar(t, ",", ".")
    ELSE t

parse_number_texto(value) ==
    LET limpio == Limpio(value)
    IN  IF value = << >> \/ limpio = << >> \/ limpio = <<"-">> THEN Cero
        ELSE IF float(SeparadoresResueltos(limpio)) = NoEsNumero THEN Cero
        ELSE float(SeparadoresResueltos(limpio))

SinResultado == [num |-> 0, exp |-> 0 - 2]

SinConversion == [value |-> << >>, resultado |-> SinResultado]

\* parse_number is called with the text and returns.
Convierte ==
    /\ conversion.resultado = SinResultado
    /\ conversion' = [conversion EXCEPT !.resultado = parse_number_texto(conversion.value)]
    /\ UNCHANGED <<facturas, abonos, reloj, ultima, ida_vuelta, ajustes, pc, loc, version,
                   identidad, clientes, multi>>

(*------------------------------ add_factura ----------------------------*)
\* Mutation: the other deductions are left out of the net amount.
MontoCobrarSinOtros(total, corfoga, otros) == total - corfoga

MontoCobrarInicial(total, corfoga, otros) == total - corfoga - otros

\* Mutation: the document code is read one character too early.
detectar_tipo_documento_corrido(consecutivo) ==
    IF Len(consecutivo) >= 8 /\ SubSeq(consecutivo, 6, 7) = <<"0", "3">>
    THEN "NC" ELSE "FAC"

detectar_tipo_documento(consecutivo) ==
    IF Len(consecutivo) >= 8 /\ SubSeq(consecutivo, 7, 8) = <<"0", "3">>
    THEN "NC" ELSE "FAC"

\* The row that add_factura and add_facturas_batch build from one document
\* of the request: the 19 columns up to Estado; TotalAbonado and
\* SaldoPendiente stay empty.
NuevaFactura(id, data, tipo_doc, relacionado) ==
    [ID |-> id,
     Consecutivo |-> data.consecutivo,
     ClienteID |-> data.clienteId,
     TotalFactura |-> data.totalFactura,
     CORFOGA |-> data.corfoga,
     OtrosRebajos |-> data.otrosRebajos,
     MontoCobrar |-> MontoCobrarInicial(data.totalFactura, data.corfoga, data.otrosRebajos),
     FechaVencimiento |-> data.fechaVencimiento,
     Pagado |-> "FALSE",
     FechaPago |-> "",
     Notas |-> data.notas,
     TipoDocumento |-> tipo_doc,
     DocumentoRelacionado |-> relacionado,
     Estado |-> "Pendiente",
     TotalAbonado |-> Vacia,
     SaldoPendiente |-> Vacia]

add_factura(data) ==
    /\ reloj + ajustes < MaxPeticiones
    /\ reloj' = reloj + 1
    /\ facturas' = Append(facturas,
           NuevaFactura(reloj + 1, data,
                        IF data.tipoDocumento # "" THEN data.tipoDocumento
                        ELSE detectar_tipo_documento(data.consecutivo),
                        data.documentoRelacionado))
    /\ ultima' = Respuesta("add_factura", 200, Len(facturas) + 1, FALSE)
    /\ ida_vuelta' = SinIdaVuelta
    /\ UNCHANGED <<abonos, ajustes, pc, loc, version>>

(*--------------------------- add_facturas_batch ------------------------*)
\* str.lstrip('0')
RECURSIVE lstrip0(_)
lstrip0(texto) ==
    IF texto # << >> /\ Head(texto) = "0" THEN lstrip0(Tail(texto)) ELSE texto

\* The Consecutivo cells of the sheet as read before the loop, normalised.
existing_consecutivos == {lstrip0(facturas[i].Consecutivo) : i \in 1..Len(facturas)}

\* The id of document i (from 0) of a batch whose rows are built at the
\* clock reading given: the reading followed by the index in four digits.
IdLote(lectura, i) == (lectura + 1) * BaseLote + i

\* The rows built from the documents i.. of the batch: a document whose
\* code is in the sheet already is skipped, the others keep their index.
RECURSIVE FilasLote(_, _, _, _)
FilasLote(lote, i, lectura, existentes) ==
    IF i > Len(lote) THEN << >>
    ELSE LET data == lote[i]
             resto == FilasLote(lote, i + 1, lectura, existentes)
         IN  IF lstrip0(data.consecutivo) \in existentes
             THEN resto
             ELSE <<NuevaFactura(IdLote(lectura, i - 1), data,
                                 detectar_tipo_documento(data.consecutivo), NoID)>>
                  \o resto

\* tic: a second has gone by since the last id was issued.  When none has,
\* the rows get the clock reading of the previous batch.
add_facturas_batch(lote, tic) ==
    /\ reloj + ajustes < MaxPeticiones
    /\ LET lectura == IF tic THEN reloj + 1 ELSE reloj
           rows == FilasLote(lote, 1, lectura, existing_consecutivos)
       IN  /\ facturas' = facturas \o rows
           /\ ultima' = Respuesta("add_facturas_batch", 200, Len(rows), FALSE)
    /\ reloj' = IF tic THEN reloj + 1 ELSE reloj
    /\ ajustes' = IF tic THEN ajustes ELSE ajustes + 1
    /\ ida_vuelta' = SinIdaVuelta
    /\ UNCHANGED <<abonos, pc, loc, version>>

(*------------------------------- add_abono -----------------------------*)
\* Mutation: the amount replaces the accumulated total instead of adding to it.
NuevoTotalSoloMonto(total_abonado_actual, monto) == monto

NuevoTotalAbonado(total_abonado_actual, monto) == total_abonado_actual + monto

NuevoSaldo(monto_cobrar, nuevo_total_abonado) == monto_cobrar - nuevo_total_abonado

\* Mutation: the check allows twice the tolerance.
ExcedeSaldoHolgado(nuevo_saldo) == nuevo_saldo < 0 - Tol - Tol

ExcedeSaldo(nuevo_saldo) == nuevo_saldo < 0 - Tol

\* Mutation: a balance of exactly 0.01 does not count as settled.
PagadoCompletoEstricto(nuevo_saldo) == nuevo_saldo < Tol

PagadoCompleto(nuevo_saldo) == nuevo_saldo <= Tol

\* The invoice row after the cell updates of a successful add_abono.
FilaTrasAbono(f, monto) ==
    LET nuevo_total_abonado == NuevoTotalAbonado(parse_number(f.TotalAbonado), monto)
        nuevo_saldo == NuevoSaldo(f.MontoCobrar, nuevo_total_abonado)
    IN  IF PagadoCompleto(nuevo_saldo)
        THEN [f EXCEPT !.TotalAbonado = Num(nuevo_total_abonado),
                       !.SaldoPendiente = Num(Max0(nuevo_saldo)),
                       !.Pagado = "TRUE",
                       !.FechaPago = Hoy,
                       !.Estado = "Pagado"]
        ELSE [f EXCEPT !.TotalAbonado = Num(nuevo_total_abonado),
                       !.SaldoPendiente = Num(Max0(nuevo_saldo)),
                       !.Estado = "Abono Parcial"]

\* The request asks for more than the invoice can take: TotalAbonado + monto
\* is above MontoCobrar + 0.01.
Sobrepasa(f, monto) == parse_number(f.TotalAbonado) + monto > f.MontoCobrar + Tol

NuevoAbono(id, factura_id, monto) == [ID |-> id, FacturaID |-> factura_id, Monto |-> monto]

add_abono(factura_id, monto) ==
    /\ reloj + ajustes < MaxPeticiones
    /\ LET row == FindFactura(factura_id) IN
       IF monto <= 0
       THEN /\ ultima' = Respuesta("add_abono", 400, 0, FALSE)
            /\ ida_vuelta' = SinIdaVuelta
            /\ UNCHANGED <<facturas, abonos, reloj>>
       ELSE IF row = 0
       THEN /\ ultima' = Respuesta("add_abono", 404, 0, FALSE)
            /\ ida_vuelta' = SinIdaVuelta
            /\ UNCHANGED <<facturas, abonos, reloj>>
       ELSE IF ExcedeSaldo(NuevoSaldo(facturas[row].MontoCobrar,
                    NuevoTotalAbonado(parse_number(facturas[row].TotalAbonado), monto)))
       THEN /\ ultima' = Respuesta("add_abono", 400, row, Sobrepasa(facturas[row], monto))
            /\ ida_vuelta' = SinIdaVuelta
            /\ UNCHANGED <<facturas, abonos, reloj>>
       ELSE /\ reloj' = reloj + 1
            /\ abonos' = Append(abonos, NuevoAbono(reloj + 1, factura_id, monto))
            /\ facturas' = [facturas EXCEPT ![row] = FilaTrasAbono(facturas[row], monto)]
            /\ ultima' = [Respuesta("add_abono", 200, row, Sobrepasa(facturas[row], monto))
                            EXCEPT !.factura_id = factura_id]
            /\ ida_vuelta' = [fase |-> "abonado", row |-> row, id |-> reloj + 1,
                              TotalAbonado |-> parse_number(facturas[row].TotalAbonado),
                              Saldo |-> saldoPendiente(facturas[row]),
                              Estado |-> facturas[row].Estado]
    /\ UNCHANGED <<ajustes, pc, loc, version>>

(*------------------------------ delete_abono ---------------------------*)
NuevoTotalTrasEliminar(total_abonado_actual, monto_abono) ==
    Max0(total_abonado_actual - monto_abono)

\* Mutation: a reversal always returns the invoice to Pendiente.
EstadoSiemprePendiente(nuevo_total_abonado) == "Pendiente"

EstadoTrasEliminar(nuevo_total_abonado) ==
    IF nuevo_total_abonado > 0 THEN "Abono Parcial" ELSE "Pendiente"

\* Mutation: the balance is computed from the total read, not the new one.
FilaTrasEliminarSaldoViejo(f, monto_abono) ==
    LET nuevo_total_abonado ==
            NuevoTotalTrasEliminar(parse_number(f.TotalAbonado), monto_abono)
        nuevo_saldo == NuevoSaldo(f.MontoCobrar, parse_number(f.TotalAbonado))
    IN  [f EXCEPT !.TotalAbonado = Num(nuevo_total_abonado),
                  !.SaldoPendiente = Num(nuevo_saldo),
                  !.Estado = EstadoTrasEliminar(nuevo_total_abonado),
                  !.Pagado = "FALSE"]

\* The invoice row after the cell updates of delete_abono.
FilaTrasEliminar(f, monto_abono) ==
    LET nuevo_total_abonado ==
            NuevoTotalTrasEliminar(parse_number(f.TotalAbonado), monto_abono)
        nuevo_saldo == NuevoSaldo(f.MontoCobrar, nuevo_total_abonado)
    IN  [f EXCEPT !.TotalAbonado = Num(nuevo_total_abonado),
                  !.SaldoPendiente = Num(nuevo_saldo),
                  !.Estado = EstadoTrasEliminar(nuevo_total_abonado),
                  !.Pagado = "FALSE"]

delete_abono(abono_id) ==
    /\ LET row == FindAbono(abono_id) IN
       IF row = 0
       THEN /\ ultima' = Respuesta("delete_abono", 404, 0, FALSE)
            /\ ida_vuelta' = SinIdaVuelta
            /\ UNCHANGED <<facturas, abonos>>
       ELSE LET factura_id == abonos[row].FacturaID
                monto_abono == abonos[row].Monto
                row_factura == FindFactura(factura_id)
            IN  /\ abonos' = DeleteRow(abonos, row)
                /\ facturas' =
                       IF row_factura = 0 THEN facturas
                       ELSE [facturas EXCEPT ![row_factura] =
                                FilaTrasEliminar(facturas[row_factura], monto_abono)]
                /\ ultima' = Respuesta("delete_abono", 200, row_factura, FALSE)
                /\ ida_vuelta' =
                       IF /\ ida_vuelta.fase = "abonado"
                          /\ ida_vuelta.id = abono_id
                          /\ ida_vuelta.row = row_factura
                       THEN [ida_vuelta EXCEPT !.fase = "revertido"]
                       ELSE SinIdaVuelta
    /\ UNCHANGED <<reloj, ajustes, pc, loc, version>>

(*----------------------------- update_factura --------------------------*)
\* A field of the request if it is there, the stored cell otherwise.
Campo(dato, celda) == IF dato = Vacia THEN celda ELSE dato[1]

\* The invoice row after update_factura: the amount fields the request
\* carries are written and MontoCobrar is recomputed from the three.
\* notas, when the request carries it, replaces the Notas cell.
FilaTrasUpdate(f, totalFactura, corfoga, otrosRebajos, notas) ==
    LET total == Campo(totalFactura, f.TotalFactura)
        corf == Campo(corfoga, f.CORFOGA)
        otros == Campo(otrosRebajos, f.OtrosRebajos)
    IN  [f EXCEPT !.TotalFactura = total,
                  !.CORFOGA = corf,
                  !.OtrosRebajos = otros,
                  !.MontoCobrar = total - corf - otros,
                  !.Notas = IF notas = Vacia THEN f.Notas ELSE notas[1]]

update_factura(factura_id, totalFactura, corfoga, otrosRebajos, notas) ==
    /\ reloj + ajustes < MaxPeticiones
    /\ LET row == FindFactura(factura_id) IN
       /\ facturas' =
              IF row = 0 THEN facturas
              ELSE [facturas EXCEPT ![row] =
                       FilaTrasUpdate(facturas[row], totalFactura, corfoga, otrosRebajos,
                                      notas)]
       /\ ultima' = [Respuesta("update_factura", 200, row, FALSE)
                       EXCEPT !.factura_id = factura_id]
    /\ ida_vuelta' = SinIdaVuelta
    /\ ajustes' = ajustes + 1
    /\ UNCHANGED <<abonos, reloj, pc, loc, version>>

(*----------------------------- registrar_pago --------------------------*)
\* A note of a Notas cell: its text and the id the text ends with, if any.
Nota(texto, id) == [texto |-> texto, id |-> id]

\* The Notas cell after registrar_pago: a note the request carries is added
\* after the ones the cell holds.
NotasTrasPago(notas_actuales, nueva_nota) ==
    IF nueva_nota = "" THEN notas_actuales
    ELSE Append(notas_actuales, Nota("Pago: " \o nueva_nota, NoID))

\* Mutation: a partial payment also writes the state it says the invoice keeps.
FilaTrasPagoPendiente(f, monto_parcial, fechaPago, nueva_nota) ==
    IF monto_parcial # 0
    THEN [f EXCEPT !.MontoCobrar = f.MontoCobrar - monto_parcial,
                   !.Pagado = "FALSE",
                   !.Estado = "Pendiente",
                   !.FechaPago = fechaPago,
                   !.Notas = NotasTrasPago(f.Notas, nueva_nota)]
    ELSE [f EXCEPT !.Pagado = "TRUE",
                   !.Estado = "Pagado",
                   !.FechaPago = fechaPago,
                   !.Notas = NotasTrasPago(f.Notas, nueva_nota)]

\* The invoice row after registrar_pago.  A non-zero montoParcial lowers
\* MontoCobrar and leaves the state alone; without it the invoice is marked
\* paid.  FechaPago is written in both cases, and so is the note.
FilaTrasPago(f, monto_parcial, fechaPago, nueva_nota) ==
    IF monto_parcial # 0
    THEN [f EXCEPT !.MontoCobrar = f.MontoCobrar - monto_parcial,
                   !.FechaPago = fechaPago,
                   !.Notas = NotasTrasPago(f.Notas, nueva_nota)]
    ELSE [f EXCEPT !.Pagado = "TRUE",
                   !.Estado = "Pagado",
                   !.FechaPago = fechaPago,
                   !.Notas = NotasTrasPago(f.Notas, nueva_nota)]

registrar_pago(factura_id, monto_parcial, fechaPago, nueva_nota) ==
    /\ reloj + ajustes < MaxPeticiones
    /\ LET row == FindFactura(factura_id) IN
       /\ row # 0 => facturas[row].MontoCobrar - monto_parcial >= 0 - MaxSobrepago
       /\ facturas' =
              IF row = 0 THEN facturas
              ELSE [facturas EXCEPT ![row] =
                       FilaTrasPago(facturas[row], monto_parcial, fechaPago, nueva_nota)]
       /\ ultima' = [Respuesta(IF monto_parcial # 0 THEN "registrar_pago_parcial"
                                                   ELSE "registrar_pago",
                               200, row, FALSE)
                       EXCEPT !.factura_id = factura_id]
    /\ ida_vuelta' = SinIdaVuelta
    /\ ajustes' = ajustes + 1
    /\ UNCHANGED <<abonos, reloj, pc, loc, version>>

(*-------------------------- compensar_documentos -----------------------*)
\* A document row after compensar_documentos has written it; relacionado is
\* the id of the counterpart.
\* and texto what its note says before that id.  The note goes after the
\* notes the cell holds.
\* Mutation: the compensation also settles the balance of the document.
FilaCompensadaSaldada(f, relacionado, texto) ==
    [f EXCEPT !.Pagado = "TRUE",
              !.FechaPago = Hoy,
              !.DocumentoRelacionado = relacionado,
              !.Estado = "Compensado",
              !.Notas = Append(f.Notas, Nota(texto, relacionado)),
              !.TotalAbonado = Num(f.MontoCobrar),
              !.SaldoPendiente = Num(0)]

FilaCompensada(f, relacionado, texto) ==
    [f EXCEPT !.Pagado = "TRUE",
              !.FechaPago = Hoy,
              !.DocumentoRelacionado = relacionado,
              !.Estado = "Compensado",
              !.Notas = Append(f.Notas, Nota(texto, relacionado))]

\* The sheet after the cell updates of compensar_documentos: the rows were
\* located before the first write, the credit note's row is written first.
FacturasCompensadas(row_nc, row_fac, nc_id, factura_id) ==
    LET tras_nc == [facturas EXCEPT ![row_nc] =
                       FilaCompensada(facturas[row_nc], factura_id, "Compensado con FAC")]
    IN  [tras_nc EXCEPT ![row_fac] =
            FilaCompensada(tras_nc[row_fac], nc_id, "Compensado con NC")]

\* Mutation: the credit note is written before the invoice is looked up.
FacturasSinCompensarNCEscrita(row_nc, nc_id, factura_id) ==
    IF row_nc = 0 THEN facturas
    ELSE [facturas EXCEPT ![row_nc] =
             FilaCompensada(facturas[row_nc], factura_id, "Compensado con FAC")]

\* The sheet when a lookup of compensar_documentos finds nothing: the
\* handler has returned before its first write.
FacturasSinCompensar(row_nc, nc_id, factura_id) == facturas

Abs(x) == IF x < 0 THEN 0 - x ELSE x

Min(x, y) == IF x <= y THEN x ELSE y

\* montoCompensado of the answer: the amount asked for or, when it is 0 or
\* missing, the smaller of the two MontoCobrar cells in absolute value.
MontoCompensado(monto_compensar, f_nc, f_fac) ==
    IF monto_compensar = 0
    THEN Min(Abs(f_nc.MontoCobrar), Abs(f_fac.MontoCobrar))
    ELSE monto_compensar

compensar_documentos(nc_id, factura_id, monto_compensar) ==
    /\ reloj + ajustes < MaxPeticiones
    /\ LET row_nc == FindFactura(nc_id)
           row_fac == FindFactura(factura_id)
           pedido == [SinCompensar EXCEPT !.nc_id = nc_id, !.factura_id = factura_id,
                                          !.monto_pedido = monto_compensar]
       IN  IF row_nc = 0 \/ row_fac = 0
           THEN /\ ultima' = [Respuesta("compensar_documentos", 404, 0, FALSE)
                                 EXCEPT !.compensar = pedido]
                /\ facturas' = FacturasSinCompensar(row_nc, nc_id, factura_id)
           ELSE /\ facturas' = FacturasCompensadas(row_nc, row_fac, nc_id, factura_id)
                /\ ultima' = [Respuesta("compensar_documentos", 200, row_fac, FALSE)
                                 EXCEPT !.compensar =
                                     [pedido EXCEPT !.row_nc = row_nc,
                                                    !.montoCompensado =
                                                        MontoCompensado(monto_compensar,
                                                            facturas[row_nc],
                                                            facturas[row_fac])]]
    /\ ida_vuelta' = SinIdaVuelta
    /\ ajustes' = ajustes + 1
    /\ UNCHANGED <<abonos, reloj, pc, loc, version>>

(*------------------ add_abono, one store call at a time ----------------*)
(* The server handles requests in threads and add_abono takes no lock, so  *)
(* between any two calls to the spreadsheet another request may run.  Each *)
(* action below is one such call together with the local computation that  *)
(* precedes it.                                                            *)
SinLocales == [factura_id |-> NoID, monto |-> 0, row |-> 0, monto_cobrar |-> 0,
               total_abonado_actual |-> 0, version |-> 0, status |-> 0, fallas |-> 0]

nuevo_total_abonado(h) == NuevoTotalAbonado(loc[h].total_abonado_actual, loc[h].monto)

nuevo_saldo(h) == NuevoSaldo(loc[h].monto_cobrar, nuevo_total_abonado(h))

Termina(h, status) ==
    /\ pc' = [pc EXCEPT ![h] = "fin"]
    /\ loc' = [loc EXCEPT ![h].status = status]

\* request.json is read, the amount validated and the invoice looked up.
Buscar(h, factura_id, monto) ==
    /\ pc[h] = "inicio" \/ (pc[h] = "fin" /\ loc[h].status = 500)
    /\ UNCHANGED <<identidad, fuera>>
    /\ IF monto <= 0
       THEN /\ pc' = [pc EXCEPT ![h] = "fin"]
            /\ loc' = [loc EXCEPT ![h].factura_id = factura_id, ![h].monto = monto,
                                  ![h].status = 400]
       ELSE IF FindFactura(factura_id) = 0
       THEN /\ pc' = [pc EXCEPT ![h] = "fin"]
            /\ loc' = [loc EXCEPT ![h].factura_id = factura_id, ![h].monto = monto,
                                  ![h].status = 404]
       ELSE /\ pc' = [pc EXCEPT ![h] = "leer_monto_cobrar"]
            /\ loc' = [loc EXCEPT ![h].factura_id = factura_id, ![h].monto = monto,
                                  ![h].row = FindFactura(factura_id)]
    /\ UNCHANGED <<facturas, abonos, reloj, ultima, ida_vuelta, ajustes, version>>

LeerMontoCobrar(h) ==
    /\ pc[h] = "leer_monto_cobrar"
    /\ UNCHANGED <<identidad, fuera>>
    /\ loc' = [loc EXCEPT ![h].monto_cobrar = facturas[loc[h].row].MontoCobrar]
    /\ pc' = [pc EXCEPT ![h] = "leer_total_abonado"]
    /\ UNCHANGED <<facturas, abonos, reloj, ultima, ida_vuelta, ajustes, version>>

LeerTotalAbonado(h) ==
    /\ pc[h] = "leer_total_abonado"
    /\ UNCHANGED <<identidad, fuera>>
    /\ loc' = [loc EXCEPT ![h].total_abonado_actual =
                              parse_number(facturas[loc[h].row].TotalAbonado),
                          ![h].version = version]
    /\ pc' = [pc EXCEPT ![h] = "registrar"]
    /\ UNCHANGED <<facturas, abonos, reloj, ultima, ida_vuelta, ajustes, version>>

\* The overpayment check and, when it passes, the append to Abonos.
Registrar(h) ==
    /\ pc[h] = "registrar"
    /\ UNCHANGED <<identidad, fuera>>
    /\ IF ExcedeSaldo(nuevo_saldo(h))
       THEN /\ Termina(h, 400)
            /\ UNCHANGED <<abonos, reloj>>
       ELSE /\ reloj' = reloj + 1
            /\ abonos' = Append(abonos, NuevoAbono(reloj + 1, loc[h].factura_id, loc[h].monto))
            /\ pc' = [pc EXCEPT ![h] = "escribir_total"]
            /\ UNCHANGED loc
    /\ UNCHANGED <<facturas, ultima, ida_vuelta, ajustes, version>>

EscribirTotal(h) ==
    /\ pc[h] = "escribir_total"
    /\ UNCHANGED <<identidad, fuera>>
    /\ facturas' = [facturas EXCEPT ![loc[h].row].TotalAbonado = Num(nuevo_total_abonado(h))]
    /\ version' = version + 1
    /\ pc' = [pc EXCEPT ![h] = "escribir_saldo"]
    /\ UNCHANGED <<abonos, reloj, ultima, ida_vuelta, ajustes, loc>>

EscribirSaldo(h) ==
    /\ pc[h] = "escribir_saldo"
    /\ UNCHANGED <<identidad, fuera>>
    /\ facturas' = [facturas EXCEPT ![loc[h].row].SaldoPendiente = Num(Max0(nuevo_saldo(h)))]
    /\ pc' = [pc EXCEPT ![h] = IF PagadoCompleto(nuevo_saldo(h))
                               THEN "escribir_pagado" ELSE "escribir_estado"]
    /\ UNCHANGED <<abonos, reloj, ultima, ida_vuelta, ajustes, loc, version>>

EscribirPagado(h) ==
    /\ pc[h] = "escribir_pagado"
    /\ UNCHANGED <<identidad, fuera>>
    /\ facturas' = [facturas EXCEPT ![loc[h].row].Pagado = "TRUE"]
    /\ pc' = [pc EXCEPT ![h] = "escribir_fecha"]
    /\ UNCHANGED <<abonos, reloj, ultima, ida_vuelta, ajustes, loc, version>>

EscribirFecha(h) ==
    /\ pc[h] = "escribir_fecha"
    /\ UNCHANGED <<identidad, fuera>>
    /\ facturas' = [facturas EXCEPT ![loc[h].row].FechaPago = Hoy]
    /\ pc' = [pc EXCEPT ![h] = "escribir_estado"]
    /\ UNCHANGED <<abonos, reloj, ultima, ida_vuelta, ajustes, loc, version>>

EscribirEstado(h) ==
    /\ pc[h] = "escribir_estado"
    /\ UNCHANGED <<identidad, fuera>>
    /\ facturas' = [facturas EXCEPT ![loc[h].row].Estado =
                       IF PagadoCompleto(nuevo_saldo(h)) THEN "Pagado" ELSE "Abono Parcial"]
    /\ Termina(h, 200)
    /\ UNCHANGED <<abonos, reloj, ultima, ida_vuelta, ajustes, version>>

\* Positions of add_abono at which the next thing to run is a call to the
\* spreadsheet; at "registrar" it is the append to Abonos.
LlamadasAbono ==
    {"leer_monto_cobrar", "leer_total_abonado", "registrar", "escribir_total",
     "escribir_saldo", "escribir_pagado", "escribir_fecha", "escribir_estado"}

\* The call raises (quota, network): the except clause answers 500 and what
\* was written before stays written.
FallaAbono(h) ==
    /\ pc[h] \in LlamadasAbono
    /\ loc[h].fallas < MaxFallas
    /\ pc' = [pc EXCEPT ![h] = "fin"]
    /\ loc' = [loc EXCEPT ![h].status = 500, ![h].fallas = @ + 1]
    /\ UNCHANGED <<facturas, abonos, reloj, ultima, ida_vuelta, ajustes, version>>
    /\ UNCHANGED <<identidad, fuera>>

\* The caller, answered 500, submits the same request again.
Reintenta(h) ==
    /\ pc[h] = "fin"
    /\ loc[h].status = 500
    /\ Buscar(h, loc[h].factura_id, loc[h].monto)

(*-------------------------- get_antiguedad_cartera ---------------------*)
(* A date is the number of its day; a FechaVencimiento cell is << >> when  *)
(* empty and <<day>> otherwise.                                            *)

\* Mutation: the day count that closes the first category falls in the next.
CategoriaAdelantada(dias_vencido) ==
    IF dias_vencido < 30 THEN "corriente"
    ELSE IF dias_vencido <= 60 THEN "dias_31_60"
    ELSE IF dias_vencido <= 90 THEN "dias_61_90"
    ELSE "dias_90_mas"

Categoria(dias_vencido) ==
    IF dias_vencido <= 30 THEN "corriente"
    ELSE IF dias_vencido <= 60 THEN "dias_31_60"
    ELSE IF dias_vencido <= 90 THEN "dias_61_90"
    ELSE "dias_90_mas"

\* Days from the due date to the day of the report; 0 without a due date.
DiasVencido(r, hoy) ==
    IF r.FechaVencimiento = SinFecha THEN 0 ELSE hoy - r.FechaVencimiento[1]

\* Mutation: no id is taken as seen before.
NuncaProcesado(factura_id, ids_procesados) == factura_id = NoID

\* The row is skipped before it is looked at: its id was seen, or is empty.
YaProcesado(factura_id, ids_procesados) ==
    factura_id \in ids_procesados \/ factura_id = NoID

\* The row is not a pending invoice.
NoPendiente(r) ==
    \/ r.Pagado = "TRUE"
    \/ r.Estado = "Pagado"
    \/ r.Estado = "Compensado"
    \/ r.TipoDocumento = "NC"

SaldoCartera(r) == r.MontoCobrar - parse_number(r.TotalAbonado)

factura_info(r, hoy) ==
    [id |-> r.ID,
     montoCobrar |-> r.MontoCobrar,
     totalAbonado |-> parse_number(r.TotalAbonado),
     saldoPendiente |-> SaldoCartera(r),
     diasVencido |-> Max0(DiasVencido(r, hoy))]

\* list.sort(key = diasVencido, reverse = True), which keeps the order of
\* the entries that have the same key.
RECURSIVE Insertar(_, _)
Insertar(info, lista) ==
    IF lista = << >> THEN <<info>>
    ELSE IF Head(lista).diasVencido >= info.diasVencido
         THEN <<Head(lista)>> \o Insertar(info, Tail(lista))
         ELSE <<info>> \o lista

RECURSIVE Ordenar(_)
Ordenar(lista) ==
    IF lista = << >> THEN << >>
    ELSE Insertar(lista[Len(lista)], Ordenar(SubSeq(lista, 1, Len(lista) - 1)))

\* The loop over the records, from record i on.
RECURSIVE Clasificar(_, _, _, _, _)
Clasificar(records, i, ids_procesados, hoy, rep) ==
    IF i > Len(records) THEN rep
    ELSE LET r == records[i]
             saldo == SaldoCartera(r)
             cat == Categoria(DiasVencido(r, hoy))
         IN  IF YaProcesado(r.ID, ids_procesados)
             THEN Clasificar(records, i + 1, ids_procesados, hoy, rep)
             ELSE IF NoPendiente(r) \/ saldo <= 0
             THEN Clasificar(records, i + 1, ids_procesados \cup {r.ID}, hoy, rep)
             ELSE Clasificar(records, i + 1, ids_procesados \cup {r.ID}, hoy,
                     [rep EXCEPT !.totalCartera = @ + saldo,
                                 !.facturasPendientes = @ + 1,
                                 !.cartera[cat].facturas = Append(@, factura_info(r, hoy)),
                                 !.cartera[cat].total = @ + saldo])

\* The report: the loop, then cantidad and the order of each category.
\* (porcentaje, total / totalCartera rounded, is derived from these.)
Reporte(records, hoy) ==
    LET rep == Clasificar(records, 1, {}, hoy, [SinReporte EXCEPT !.hoy = hoy])
    IN  [rep EXCEPT !.cartera =
            [key \in DOMAIN rep.cartera |->
                [facturas |-> Ordenar(rep.cartera[key].facturas),
                 total |-> rep.cartera[key].total,
                 cantidad |-> Len(rep.cartera[key].facturas)]]]

get_antiguedad_cartera(hoy) ==
    /\ ultima' = [Respuesta("get_antiguedad_cartera", 200, 0, FALSE)
                     EXCEPT !.reporte = Reporte(facturas, hoy)]
    /\ ida_vuelta' = SinIdaVuelta
    /\ UNCHANGED <<facturas, abonos, reloj, ajustes, pc, loc, version>>

(*---------------- the other classifiers of the aging report ------------*)
\* The loop of export_antiguedad_excel from record i on; the balance of each
\* row written, under the category written next to it.
RECURSIVE TotalesExcel(_, _, _, _)
TotalesExcel(records, i, hoy, tot) ==
    IF i > Len(records) THEN tot
    ELSE LET r == records[i]
             saldo == SaldoCartera(r)
             cat == Categoria(Max0(DiasVencido(r, hoy)))
         IN  IF NoPendiente(r) \/ saldo <= 0
             THEN TotalesExcel(records, i + 1, hoy, tot)
             ELSE TotalesExcel(records, i + 1, hoy, [tot EXCEPT ![cat] = @ + saldo])

\* The loop of export_antiguedad_pdf: its dictionary totales.
RECURSIVE TotalesPDF(_, _, _, _)
TotalesPDF(records, i, hoy, tot) ==
    IF i > Len(records) THEN tot
    ELSE LET r == records[i]
             saldo == SaldoCartera(r)
             cat == Categoria(Max0(DiasVencido(r, hoy)))
         IN  IF NoPendiente(r) \/ saldo <= 0
             THEN TotalesPDF(records, i + 1, hoy, tot)
             ELSE TotalesPDF(records, i + 1, hoy, [tot EXCEPT ![cat] = @ + saldo])

\* The loop of get_dashboard_stats: stats['porCategoria'].  A pending row
\* without a due date is counted in totalPorCobrar and in no category.
RECURSIVE porCategoria(_, _, _, _)
porCategoria(records, i, hoy, tot) ==
    IF i > Len(records) THEN tot
    ELSE LET r == records[i]
             saldo == SaldoCartera(r)
             cat == Categoria(DiasVencido(r, hoy))
         IN  IF \/ r.TipoDocumento = "NC"
                \/ r.Pagado = "TRUE" \/ r.Estado = "Pagado" \/ r.Estado = "Compensado"
                \/ saldo <= 0
                \/ r.FechaVencimiento = SinFecha
             THEN porCategoria(records, i + 1, hoy, tot)
             ELSE porCategoria(records, i + 1, hoy, [tot EXCEPT ![cat] = @ + saldo])

RespuestaTotales(op, hoy, totales) ==
    [Respuesta(op, 200, 0, FALSE) EXCEPT !.reporte.hoy = hoy, !.totales = totales]

export_antiguedad_excel(hoy) ==
    /\ ultima' = RespuestaTotales("export_antiguedad_excel", hoy,
                                  TotalesExcel(facturas, 1, hoy, SinTotales))
    /\ ida_vuelta' = SinIdaVuelta
    /\ UNCHANGED <<facturas, abonos, reloj, ajustes, pc, loc, version>>

export_antiguedad_pdf(hoy) ==
    /\ ultima' = RespuestaTotales("export_antiguedad_pdf", hoy,
                                  TotalesPDF(facturas, 1, hoy, SinTotales))
    /\ ida_vuelta' = SinIdaVuelta
    /\ UNCHANGED <<facturas, abonos, reloj, ajustes, pc, loc, version>>

get_dashboard_stats(hoy) ==
    /\ ultima' = RespuestaTotales("get_dashboard_stats", hoy,
                                  porCategoria(facturas, 1, hoy, SinTotales))
    /\ ida_vuelta' = SinIdaVuelta
    /\ UNCHANGED <<facturas, abonos, reloj, ajustes, pc, loc, version>>

(*------------- compensar_documentos, one store call at a time ----------*)
(* compensar_documentos has no lock either, and any call to the            *)
(* spreadsheet may raise (quota, network), which ends the request with 500 *)
(* and leaves the cells already written as they are.                       *)
SinLocalesCompensar ==
    [nc_id |-> NoID, factura_id |-> NoID, monto_compensar |-> 0, row_nc |-> 0,
     row_fac |-> 0, monto_nc |-> 0, monto_fac |-> 0, notas |-> SinNotas, status |-> 0]

\* The store calls of the handler after request.json is read, in order.
Pasos ==
    <<"inicio", "buscar_factura", "leer_monto_nc", "leer_monto_fac",
      "nc_pagado", "nc_fecha", "nc_relacionado", "nc_estado", "nc_leer_notas", "nc_notas",
      "fac_pagado", "fac_fecha", "fac_relacionado", "fac_estado", "fac_leer_notas",
      "fac_notas", "fin">>

SiguientePaso(paso) == Pasos[(CHOOSE k \in 1..Len(Pasos) : Pasos[k] = paso) + 1]

\* The row, column and value of each update_cell that writes a constant or
\* an id of the request.
Escritura(paso, l) ==
    CASE paso = "nc_pagado" -> [row |-> l.row_nc, col |-> "Pagado", valor |-> "TRUE"]
      [] paso = "nc_fecha" -> [row |-> l.row_nc, col |-> "FechaPago", valor |-> Hoy]
      [] paso = "nc_relacionado" ->
             [row |-> l.row_nc, col |-> "DocumentoRelacionado", valor |-> l.factura_id]
      [] paso = "nc_estado" -> [row |-> l.row_nc, col |-> "Estado", valor |-> "Compensado"]
      [] paso = "fac_pagado" -> [row |-> l.row_fac, col |-> "Pagado", valor |-> "TRUE"]
      [] paso = "fac_fecha" -> [row |-> l.row_fac, col |-> "FechaPago", valor |-> Hoy]
      [] paso = "fac_relacionado" ->
             [row |-> l.row_fac, col |-> "DocumentoRelacionado", valor |-> l.nc_id]
      [] paso = "fac_estado" -> [row |-> l.row_fac, col |-> "Estado", valor |-> "Compensado"]

PasosDeEscritura ==
    {"nc_pagado", "nc_fecha", "nc_relacionado", "nc_estado",
     "fac_pagado", "fac_fecha", "fac_relacionado", "fac_estado"}

Avanza(h) == pc' = [pc EXCEPT ![h] = SiguientePaso(pc[h])]

BuscarNC(h, nc_id, factura_id, monto_compensar) ==
    /\ pc[h] = "inicio"
    /\ UNCHANGED <<identidad, fuera>>
    /\ IF FindFactura(nc_id) = 0
       THEN /\ pc' = [pc EXCEPT ![h] = "fin"]
            /\ loc' = [loc EXCEPT ![h].nc_id = nc_id, ![h].factura_id = factura_id,
                                  ![h].monto_compensar = monto_compensar,
                                  ![h].status = 404]
       ELSE /\ Avanza(h)
            /\ loc' = [loc EXCEPT ![h].nc_id = nc_id, ![h].factura_id = factura_id,
                                  ![h].monto_compensar = monto_compensar,
                                  ![h].row_nc = FindFactura(nc_id)]
    /\ UNCHANGED <<facturas, abonos, reloj, ultima, ida_vuelta, ajustes, version>>

BuscarFacturaCompensar(h) ==
    /\ pc[h] = "buscar_factura"
    /\ UNCHANGED <<identidad, fuera>>
    /\ IF FindFactura(loc[h].factura_id) = 0
       THEN /\ pc' = [pc EXCEPT ![h] = "fin"]
            /\ loc' = [loc EXCEPT ![h].status = 404]
       ELSE /\ Avanza(h)
            /\ loc' = [loc EXCEPT ![h].row_fac = FindFactura(loc[h].factura_id)]
    /\ UNCHANGED <<facturas, abonos, reloj, ultima, ida_vuelta, ajustes, version>>

LeerMonto(h) ==
    /\ pc[h] \in {"leer_monto_nc", "leer_monto_fac"}
    /\ UNCHANGED <<identidad, fuera>>
    /\ loc' = IF pc[h] = "leer_monto_nc"
              THEN [loc EXCEPT ![h].monto_nc = facturas[loc[h].row_nc].MontoCobrar]
              ELSE [loc EXCEPT ![h].monto_fac = facturas[loc[h].row_fac].MontoCobrar]
    /\ Avanza(h)
    /\ UNCHANGED <<facturas, abonos, reloj, ultima, ida_vuelta, ajustes, version>>

EscribirCelda(h) ==
    /\ pc[h] \in PasosDeEscritura
    /\ UNCHANGED <<identidad, fuera>>
    /\ LET e == Escritura(pc[h], loc[h])
       IN  facturas' = [facturas EXCEPT ![e.row][e.col] = e.valor]
    /\ Avanza(h)
    /\ UNCHANGED <<abonos, reloj, ultima, ida_vuelta, ajustes, loc, version>>

LeerNotas(h) ==
    /\ pc[h] \in {"nc_leer_notas", "fac_leer_notas"}
    /\ UNCHANGED <<identidad, fuera>>
    /\ loc' = [loc EXCEPT ![h].notas =
                  IF pc[h] = "nc_leer_notas" THEN facturas[loc[h].row_nc].Notas
                  ELSE facturas[loc[h].row_fac].Notas]
    /\ Avanza(h)
    /\ UNCHANGED <<facturas, abonos, reloj, ultima, ida_vuelta, ajustes, version>>

\* The last write of the request returns 200.
EscribirNotas(h) ==
    /\ pc[h] \in {"nc_notas", "fac_notas"}
    /\ UNCHANGED <<identidad, fuera>>
    /\ facturas' =
           IF pc[h] = "nc_notas"
           THEN [facturas EXCEPT ![loc[h].row_nc].Notas =
                    Append(loc[h].notas, Nota("Compensado con FAC", loc[h].factura_id))]
           ELSE [facturas EXCEPT ![loc[h].row_fac].Notas =
                    Append(loc[h].notas, Nota("Compensado con NC", loc[h].nc_id))]
    /\ Avanza(h)
    /\ loc' = IF pc[h] = "fac_notas" THEN [loc EXCEPT ![h].status = 200] ELSE loc
    /\ UNCHANGED <<abonos, reloj, ultima, ida_vuelta, ajustes, version>>

\* The store call the request is about to make raises: except Exception, 500.
FallaLlamada(h) ==
    /\ pc[h] \notin {"inicio", "fin"}
    /\ UNCHANGED <<identidad, fuera>>
    /\ pc' = [pc EXCEPT ![h] = "fin"]
    /\ loc' = [loc EXCEPT ![h].status = 500]
    /\ UNCHANGED <<facturas, abonos, reloj, ultima, ida_vuelta, ajustes, version>>

(*------------------------------- negocios ------------------------------*)
NingunaHoja == ""    \* current_sheet_id = None

HojaA == "hojaA"

HojaB == "hojaB"

SheetIds == {HojaA, HojaB}   \* sheetId values submitted

SinSesion == [negocio |-> NingunaHoja]

Negocio(id, sheetId) == [id |-> id, sheetId |-> sheetId]

\* The first business with the id given, 0 when there is none.
PrimerNegocio(negocio_id) ==
    LET hits == {i \in 1..Len(negocios) : negocios[i].id = negocio_id}
    IN  IF hits = {} THEN 0 ELSE CHOOSE i \in hits : \A j \in hits : i <= j

\* [n for n in negocios if n['id'] != negocio_id]
RECURSIVE SinNegocio(_, _)
SinNegocio(lista, negocio_id) ==
    IF lista = << >> THEN << >>
    ELSE (IF Head(lista).id # negocio_id THEN <<Head(lista)>> ELSE << >>)
         \o SinNegocio(Tail(lista), negocio_id)

SinCambiosLibro == UNCHANGED <<facturas, abonos, ida_vuelta, pc, loc, version, clientes>>

\* tic: a second has gone by since the last id was issued.  The id is the
\* clock reading to the second.
add_negocio(data, tic) ==
    /\ reloj + ajustes < MaxPeticiones
    /\ tic \/ \E i \in 1..Len(negocios) : negocios[i].id = reloj
    /\ LET nuevo_negocio == Negocio(IF tic THEN reloj + 1 ELSE reloj, data.sheetId)
       IN  /\ negocios' = Append(negocios, nuevo_negocio)
           /\ current_sheet_id' = IF Len(negocios) + 1 = 1 THEN nuevo_negocio.sheetId
                                  ELSE current_sheet_id
           /\ ultima' = [Respuesta("add_negocio", 200, Len(negocios) + 1, FALSE)
                           EXCEPT !.negocio_id = nuevo_negocio.id]
    /\ reloj' = IF tic THEN reloj + 1 ELSE reloj
    /\ ajustes' = IF tic THEN ajustes ELSE ajustes + 1
    /\ SinCambiosLibro
    /\ UNCHANGED <<hojas, sesion>>

\* sheetId: '' when the request has no such field.
update_negocio(negocio_id, sheetId) ==
    LET i == PrimerNegocio(negocio_id)
    IN  /\ negocios' = IF i = 0 \/ sheetId = NingunaHoja THEN negocios
                       ELSE [negocios EXCEPT ![i].sheetId = sheetId]
        /\ ultima' = [Respuesta("update_negocio", 200, i, FALSE)
                        EXCEPT !.negocio_id = negocio_id]
        /\ SinCambiosLibro
        /\ UNCHANGED <<reloj, ajustes, current_sheet_id, hojas, sesion>>

delete_negocio(negocio_id) ==
    /\ negocios' = SinNegocio(negocios, negocio_id)
    /\ ultima' = [Respuesta("delete_negocio", 200, PrimerNegocio(negocio_id), FALSE)
                    EXCEPT !.negocio_id = negocio_id]
    /\ SinCambiosLibro
    /\ UNCHANGED <<reloj, ajustes, current_sheet_id, hojas, sesion>>

\* current_sheet_id after activar_negocio resolved business i (0: none).
HojaTrasActivar(i) == IF i = 0 THEN current_sheet_id ELSE negocios[i].sheetId

activar_negocio(usuario, negocio_id) ==
    LET i == PrimerNegocio(negocio_id)
    IN  /\ current_sheet_id' = HojaTrasActivar(i)
        /\ sesion' = IF i = 0 THEN sesion
                     ELSE [sesion EXCEPT ![usuario].negocio = negocios[i].sheetId]
        /\ ultima' = [Respuesta("activar_negocio", IF i = 0 THEN 404 ELSE 200, i, FALSE)
                        EXCEPT !.negocio_id = negocio_id, !.usuario = usuario]
        /\ SinCambiosLibro
        /\ UNCHANGED <<reloj, ajustes, negocios, hojas>>

\* Mutation: each user's requests open the spreadsheet that user activated.
get_current_sheet_id_de_sesion(usuario) == sesion[usuario].negocio

\* get_current_sheet_id, for a request of the user given.
get_current_sheet_id(usuario) ==
    IF current_sheet_id # NingunaHoja THEN current_sheet_id
    ELSE IF negocios # << >> THEN negocios[1].sheetId
    ELSE NingunaHoja

\* add_factura by a user of a process that serves several businesses: the
\* row goes to the spreadsheet that get_sheet opens.
add_factura_en_hoja(usuario, data) ==
    LET target_sheet_id == get_current_sheet_id(usuario)
    IN  /\ reloj + ajustes < MaxPeticiones
        /\ IF target_sheet_id = NingunaHoja
           THEN /\ ultima' = [Respuesta("add_factura", 500, 0, FALSE)
                                EXCEPT !.usuario = usuario]
                /\ UNCHANGED <<hojas, reloj, current_sheet_id>>
           ELSE /\ reloj' = reloj + 1
                /\ hojas' = [hojas EXCEPT ![target_sheet_id] =
                               Append(@, NuevaFactura(reloj + 1, data,
                                         detectar_tipo_documento(data.consecutivo), NoID))]
                /\ current_sheet_id' = IF current_sheet_id = NingunaHoja
                                       THEN target_sheet_id ELSE current_sheet_id
                /\ ultima' = [Respuesta("add_factura", 200, Len(hojas[target_sheet_id]) + 1,
                                        FALSE)
                                EXCEPT !.usuario = usuario, !.hoja = target_sheet_id]
        /\ SinCambiosLibro
        /\ UNCHANGED <<ajustes, negocios, sesion>>

(*------------------------------- portal --------------------------------*)
Digitos == {"0", "1", "2", "3", "4", "5", "6", "7", "8", "9"}

\* ''.join(filter(str.isdigit, str(identificacion)))
RECURSIVE SoloDigitos(_)
SoloDigitos(texto) ==
    IF texto = << >> THEN << >>
    ELSE (IF Head(texto) \in Digitos THEN <<Head(texto)>> ELSE << >>)
         \o SoloDigitos(Tail(texto))

\* s[-4:]
Ultimos4(texto) ==
    SubSeq(texto, IF Len(texto) > 4 THEN Len(texto) - 3 ELSE 1, Len(texto))

verificar_ultimos_digitos(identificacion, codigo) ==
    Ultimos4(SoloDigitos(identificacion)) = codigo

\* The first 16 hex digits of sha256("<cliente_id>-<negocio_id>-portal"):
\* a text that the two ids determine, taken as different for different ids.
generar_token_cliente(cliente_id, negocio_id) ==
    <<"sha256:">> \o cliente_id \o <<"-">> \o negocio_id \o <<"-portal">>

\* A row of Clientes as add_cliente appends it: no TokenPortal cell.
NuevoCliente(id, identificacion) ==
    [ID |-> id, Identificacion |-> identificacion, TokenPortal |-> SinTexto]

\* The first of the rows hits of Clientes, 0 when there is none.
PrimerCliente(hits) ==
    IF hits = {} THEN 0 ELSE CHOOSE i \in hits : \A j \in hits : i <= j

generar_link_portal(cliente_id, negocio_id) ==
    LET token == generar_token_cliente(cliente_id, negocio_id)
        EsElCliente(c) == c.ID = cliente_id
        i == PrimerCliente({k \in 1..Len(clientes) : EsElCliente(clientes[k])})
    IN  /\ clientes' = IF i = 0 THEN clientes
                       ELSE [clientes EXCEPT ![i].TokenPortal = token]
        /\ ultima' = [Respuesta("generar_link_portal", 200, 0, FALSE)
                        EXCEPT !.portal.token = token]
        /\ UNCHANGED <<facturas, abonos, reloj, ida_vuelta, ajustes, pc, loc, version>>

\* The client that portal_verificar looks for.
BuscaClientePorToken(c, token) == c.TokenPortal = token

\* The client that portal_estado_cuenta_pdf looks for.
BuscaClientePDF(c, token) ==
    c.TokenPortal = token \/ c.ID = token \/ c.Identificacion = token

Documento(f, monto) == [id |-> f.ID, ClienteID |-> f.ClienteID, monto |-> monto]

\* The loop of portal_verificar from row i on: the rows whose id was seen
\* are skipped, then the ones of other clients and the credit notes; a
\* settled row is listed as a payment, a pending one with its balance.
RECURSIVE DocumentosPortal(_, _, _)
DocumentosPortal(i, ids_procesados, cliente_id) ==
    IF i > Len(facturas) THEN {}
    ELSE LET f == facturas[i]
             saldo == f.MontoCobrar - parse_number(f.TotalAbonado)
         IN  IF f.ID \in ids_procesados \/ f.ID = NoID
             THEN DocumentosPortal(i + 1, ids_procesados, cliente_id)
             ELSE (IF f.ClienteID # cliente_id \/ f.TipoDocumento = "NC" THEN {}
                   ELSE IF f.Pagado = "TRUE" \/ f.Estado \in {"Pagado", "Compensado"}
                        THEN {Documento(f, f.MontoCobrar)}
                   ELSE IF saldo <= 0 THEN {}
                   ELSE {Documento(f, saldo)})
                  \cup DocumentosPortal(i + 1, ids_procesados \cup {f.ID}, cliente_id)

\* total_pendiente of portal_verificar: the balances of the pending ones.
RECURSIVE TotalPortal(_, _, _)
TotalPortal(i, ids_procesados, cliente_id) ==
    IF i > Len(facturas) THEN 0
    ELSE LET f == facturas[i]
             saldo == f.MontoCobrar - parse_number(f.TotalAbonado)
         IN  IF f.ID \in ids_procesados \/ f.ID = NoID
             THEN TotalPortal(i + 1, ids_procesados, cliente_id)
             ELSE (IF f.ClienteID # cliente_id \/ f.TipoDocumento = "NC"
                      \/ f.Pagado = "TRUE" \/ f.Estado \in {"Pagado", "Compensado"}
                      \/ saldo <= 0
                   THEN 0 ELSE saldo)
                  + TotalPortal(i + 1, ids_procesados \cup {f.ID}, cliente_id)

SinCambiosPortal ==
    UNCHANGED <<facturas, abonos, clientes, reloj, ida_vuelta, ajustes, pc, loc, version>>

portal_verificar(token, codigo) ==
    LET EsElCliente(c) == BuscaClientePorToken(c, token)
        i == PrimerCliente({k \in 1..Len(clientes) : EsElCliente(clientes[k])})
        nada == [Respuesta("portal_verificar", 200, 0, FALSE) EXCEPT !.portal.token = token]
    IN  /\ SinCambiosPortal
        /\ ultima' =
              IF token = SinTexto \/ codigo = SinTexto
              THEN [nada EXCEPT !.status = 400]
              ELSE IF i = 0 THEN nada
              ELSE IF ~verificar_ultimos_digitos(clientes[i].Identificacion, codigo) THEN nada
              ELSE [nada EXCEPT
                      !.portal.cliente = clientes[i].ID,
                      !.portal.documentos = DocumentosPortal(1, {}, clientes[i].ID),
                      !.portal.totalPendiente = TotalPortal(1, {}, clientes[i].ID)]

\* facturas_cliente of portal_estado_cuenta_pdf.
FacturasClientePDF(cliente_id) ==
    {i \in 1..Len(facturas) :
        facturas[i].ClienteID = cliente_id /\ facturas[i].Pagado # "TRUE"}

RECURSIVE SumaMontoCobrar(_)
SumaMontoCobrar(filas) ==
    IF filas = {} THEN 0
    ELSE LET i == CHOOSE j \in filas : TRUE
         IN  facturas[i].MontoCobrar + SumaMontoCobrar(filas \ {i})

portal_estado_cuenta_pdf(token) ==
    LET EsElCliente(c) == BuscaClientePDF(c, token)
        i == PrimerCliente({k \in 1..Len(clientes) : EsElCliente(clientes[k])})
        nada == [Respuesta("portal_estado_cuenta_pdf", 200, 0, FALSE)
                   EXCEPT !.portal.token = token]
    IN  /\ SinCambiosPortal
        /\ ultima' =
              IF token = SinTexto THEN [nada EXCEPT !.status = 400]
              ELSE IF i = 0 THEN [nada EXCEPT !.status = 404]
              ELSE LET filas == FacturasClientePDF(clientes[i].ID)
                   IN  [nada EXCEPT
                          !.portal.cliente = clientes[i].ID,
                          !.portal.documentos =
                              {Documento(facturas[j], facturas[j].MontoCobrar) : j \in filas},
                          !.portal.totalPendiente = SumaMontoCobrar(filas)]

(*------------------------------ auth gate -------------------------------*)
\* What verify_token makes of the token a request carries: None when there
\* is no token or it is invalid or expired, else the payload, of which the
\* gate reads the rol.
SinIdentidad == "None"

Usuario == "usuario"

Admin == "admin"

Identidades == {SinIdentidad, Usuario, Admin}

\* The 401 of auth_required: the handler is not called.
Rechazada(op, status) ==
    /\ ultima' = Respuesta(op, status, 0, FALSE)
    /\ UNCHANGED <<facturas, abonos, reloj, ida_vuelta, ajustes, pc, loc, version>>

\* @auth_required on handler f.
auth_required(token, op, f) ==
    IF token = SinIdentidad
    THEN Rechazada(op, 401)
    ELSE f

(*---------------------------- specifications ---------------------------*)
\* One business is configured, from before the clock's origin, and it is
\* the current one: facturas, abonos and clientes are its worksheets.
UnNegocio ==
    /\ negocios = <<Negocio(-1, HojaA)>>
    /\ current_sheet_id = HojaA
    /\ hojas = [s \in SheetIds |-> << >>]
    /\ sesion = [h \in Hilos |-> SinSesion]
    /\ conversion = SinConversion

Init ==
    /\ facturas = << >>
    /\ abonos = << >>
    /\ reloj = 0
    /\ ultima = Respuesta("", 0, 0, FALSE)
    /\ ida_vuelta = SinIdaVuelta
    /\ ajustes = 0
    /\ pc = [h \in Hilos |-> "fin"]
    /\ loc = [h \in Hilos |-> SinLocales]
    /\ version = 0
    /\ identidad = Usuario
    /\ clientes = << >>
    /\ UnNegocio

IDsFacturas == {facturas[i].ID : i \in 1..Len(facturas)}

\* Ids a caller may send: every id issued so far and one that was never issued.
IDsPedidos == 1..(reloj + 1)

\* The same for the handlers that look the id up in Facturas only, where an
\* abono id resolves like an id that was never issued.
IDsFacturasPedidos == IDsFacturas \cup {reloj + 1}

\* Request bodies of add_factura: an invoice with the amounts given, no due
\* date, no notes, no document type and no related document.
DatosFactura(total, corfoga, otros) ==
    [consecutivo |-> ConsecutivoFAC, totalFactura |-> total, corfoga |-> corfoga,
     otrosRebajos |-> otros, fechaVencimiento |-> SinFecha, notas |-> SinNotas,
     tipoDocumento |-> "", documentoRelacionado |-> NoID, clienteId |-> SinTexto]

LlamaAddFactura ==
    \E total \in Totales, corfoga \in Rebajos, otros \in Rebajos :
        add_factura(DatosFactura(total, corfoga, otros)) /\ UNCHANGED <<identidad, fuera>>

LlamaAddAbono == \E id \in IDsFacturasPedidos, monto \in 0..MaxMonto : add_abono(id, monto) /\ UNCHANGED <<identidad, fuera>>

LlamaAddAbonoParcial == \E id \in IDsFacturasPedidos, monto \in {1} : add_abono(id, monto) /\ UNCHANGED <<identidad, fuera>>

LlamaDeleteAbono == \E id \in IDsPedidos : delete_abono(id) /\ UNCHANGED <<identidad, fuera>>

NextAbonos == LlamaAddFactura \/ LlamaAddAbono \/ LlamaDeleteAbono

SpecAbonos == Init /\ [][NextAbonos]_vars

LlamaUpdateFactura ==
    \E id \in IDsFacturasPedidos, totalFactura \in Opcional(Totales),
       corfoga \in Opcional(Rebajos), otrosRebajos \in Opcional(Rebajos),
       notas \in {Vacia} :
        update_factura(id, totalFactura, corfoga, otrosRebajos, notas) /\ UNCHANGED <<identidad, fuera>>

LlamaRegistrarPago ==
    \E id \in IDsFacturasPedidos, monto_parcial \in 0..MaxMonto, fechaPago \in Fechas,
       nueva_nota \in {""} :
        registrar_pago(id, monto_parcial, fechaPago, nueva_nota) /\ UNCHANGED <<identidad, fuera>>

LlamaCompensar ==
    \E nc_id \in IDsFacturasPedidos, factura_id \in IDsFacturasPedidos,
       monto_compensar \in MontosCompensar :
        compensar_documentos(nc_id, factura_id, monto_compensar) /\ UNCHANGED <<identidad, fuera>>

Next ==
    \/ LlamaAddFactura
    \/ LlamaAddAbono
    \/ LlamaDeleteAbono
    \/ LlamaUpdateFactura
    \/ LlamaRegistrarPago
    \/ LlamaCompensar

Spec == Init /\ [][Next]_vars

\* Compensations, payments and notes on a sheet that holds a credit note
\* (first row) and invoices, as add_factura created them before the clock's
\* origin: their ids are the readings -NumPrevias .. -1.
DatosNC(total, corfoga, otros) ==
    [DatosFactura(total, corfoga, otros) EXCEPT !.consecutivo = ConsecutivoNC]

Previa(k) ==
    IF k = 1
    THEN NuevaFactura(k - NumPrevias - 1, DatosNC(MaxMonto, 0, 0),
                      detectar_tipo_documento(ConsecutivoNC), NoID)
    ELSE NuevaFactura(k - NumPrevias - 1, DatosFactura(MaxMonto, 0, 1),
                      detectar_tipo_documento(ConsecutivoFAC), NoID)

InitCompensar ==
    /\ facturas = [k \in 1..NumPrevias |-> Previa(k)]
    /\ abonos = << >>
    /\ reloj = 0
    /\ ultima = Respuesta("", 0, 0, FALSE)
    /\ ida_vuelta = SinIdaVuelta
    /\ ajustes = 0
    /\ pc = [h \in Hilos |-> "fin"]
    /\ loc = [h \in Hilos |-> SinLocales]
    /\ version = 0
    /\ identidad = Usuario
    /\ clientes = << >>
    /\ UnNegocio

LlamaRegistrarPagoConNota ==
    \E id \in IDsFacturasPedidos, fechaPago \in Fechas, nueva_nota \in {Texto} :
        registrar_pago(id, 0, fechaPago, nueva_nota) /\ UNCHANGED <<identidad, fuera>>

NextCompensar == LlamaAddAbonoParcial \/ LlamaRegistrarPagoConNota \/ LlamaCompensar

SpecCompensar == InitCompensar /\ [][NextCompensar]_vars

\* Batch imports, abonos and aging reports.  The documents imported: an
\* invoice due on day 0, one due on day 31 with other deductions, one
\* without a due date and a credit note.
DatosVence(consecutivo, otros, fechaVencimiento) ==
    [DatosFactura(MaxMonto, 0, otros) EXCEPT !.consecutivo = consecutivo,
                                            !.fechaVencimiento = fechaVencimiento]

DocumentosVence ==
    {DatosVence(ConsecutivoFAC, 0, Num(0)), DatosVence(Codigo("1", "8"), 1, Num(31)),
     DatosVence(Codigo("1", "9"), 1, SinFecha), DatosVence(ConsecutivoNC, 0, Num(0))}

\* Days on which the report is asked for.
DiasReporte == {0, 30, 31, 60, 61, 90, 91, 122}

LlamaBatchVence ==
    \E data \in DocumentosVence, tic \in BOOLEAN : add_facturas_batch(<<data>>, tic) /\ UNCHANGED <<identidad, fuera>>

LlamaAntiguedad == \E hoy \in DiasReporte : get_antiguedad_cartera(hoy) /\ UNCHANGED <<identidad, fuera>>

LlamaExcel == \E hoy \in DiasReporte : export_antiguedad_excel(hoy) /\ UNCHANGED <<identidad, fuera>>

LlamaPDF == \E hoy \in DiasReporte : export_antiguedad_pdf(hoy) /\ UNCHANGED <<identidad, fuera>>

LlamaDashboard == \E hoy \in DiasReporte : get_dashboard_stats(hoy) /\ UNCHANGED <<identidad, fuera>>

NextAntiguedad ==
    \/ LlamaBatchVence
    \/ LlamaAddAbonoParcial
    \/ LlamaAntiguedad
    \/ LlamaExcel
    \/ LlamaPDF
    \/ LlamaDashboard

SpecAntiguedad == Init /\ [][NextAntiguedad]_vars

\* Batch imports of documents that differ in their sequence code: an
\* invoice's, a credit note's, a credit note's of exactly 8 characters, one
\* with "03" one character early, one with "03" and fewer than 8
\* characters, one that starts with zeros and the empty one.
Consecutivos ==
    {ConsecutivoFAC, ConsecutivoNC,
     <<"1", "0", "0", "0", "0", "2", "0", "3">>,
     <<"1", "0", "0", "0", "0", "0", "3", "1", "7">>,
     <<"0", "3">>,
     <<"0", "0", "0", "0", "0", "0", "0", "3", "7">>,
     << >>}

DatosCodigo(consecutivo) == [DatosFactura(MaxMonto, 0, 0) EXCEPT !.consecutivo = consecutivo]

\* A batch of one document, or of the same document twice.
LotesCodigo ==
    {<<DatosCodigo(c)>> : c \in Consecutivos}
        \cup {<<DatosCodigo(c), DatosCodigo(c)>> : c \in Consecutivos}

LlamaBatchCodigo == \E lote \in LotesCodigo, tic \in BOOLEAN : add_facturas_batch(lote, tic) /\ UNCHANGED <<identidad, fuera>>

NextLotes == LlamaBatchCodigo

SpecLotes == Init /\ [][NextLotes]_vars

\* Requests that carry any token or none, to the routes as they are declared:
\* add_factura and add_abono behind @auth_required, compensar_documentos
\* behind no decorator.
PeticionAddFactura ==
    \E token \in Identidades, total \in Totales, corfoga \in Rebajos, otros \in Rebajos :
        /\ identidad' = token
        /\ UNCHANGED fuera
        /\ auth_required(token, "add_factura",
                         add_factura(DatosFactura(total, corfoga, otros)))

PeticionAddAbono ==
    \E token \in Identidades, id \in IDsFacturasPedidos, monto \in {1} :
        /\ identidad' = token
        /\ UNCHANGED fuera
        /\ auth_required(token, "add_abono", add_abono(id, monto))

PeticionCompensar ==
    \E token \in Identidades, nc_id \in IDsFacturasPedidos,
       factura_id \in IDsFacturasPedidos, monto_compensar \in MontosCompensar :
        /\ identidad' = token
        /\ UNCHANGED fuera
        /\ compensar_documentos(nc_id, factura_id, monto_compensar)

NextAuth == PeticionAddFactura \/ PeticionAddAbono \/ PeticionCompensar

SpecAuth == Init /\ [][NextAuth]_vars

\* The client portal on a sheet that holds two clients and, from before the
\* clock's origin, one invoice of each.
ClienteA == <<"7", "1">>

ClienteB == <<"7", "2">>

IdentificacionA == <<"1", "-", "2", "3", "4", "5">>

IdentificacionB == <<"9", "8", "7", "6">>

NegocioDefault == <<"default">>

DatosCliente(cliente_id) ==
    [DatosFactura(MaxMonto, 0, 0) EXCEPT !.clienteId = cliente_id]

InitPortal ==
    /\ facturas = <<NuevaFactura(-2, DatosCliente(ClienteA), "FAC", NoID),
                    NuevaFactura(-1, DatosCliente(ClienteB), "FAC", NoID)>>
    /\ abonos = << >>
    /\ reloj = 0
    /\ ultima = Respuesta("", 0, 0, FALSE)
    /\ ida_vuelta = SinIdaVuelta
    /\ ajustes = 0
    /\ pc = [h \in Hilos |-> "fin"]
    /\ loc = [h \in Hilos |-> SinLocales]
    /\ version = 0
    /\ identidad = SinIdentidad
    /\ clientes = <<NuevoCliente(ClienteA, IdentificacionA),
                    NuevoCliente(ClienteB, IdentificacionB)>>
    /\ UnNegocio

\* What a portal request presents as its token: nothing, a token as
\* generar_link_portal derives it, a client's ID, a client's identification
\* number, or another text.
TokensPedidos ==
    {SinTexto, generar_token_cliente(ClienteA, NegocioDefault),
     generar_token_cliente(ClienteB, NegocioDefault),
     ClienteA, IdentificacionB, <<"x">>}

CodigosPedidos == {SinTexto, Ultimos4(SoloDigitos(IdentificacionA)), IdentificacionB}

LlamaGenerarLink ==
    \E cliente_id \in {ClienteA, ClienteB, <<"7", "3">>} :
        generar_link_portal(cliente_id, NegocioDefault) /\ UNCHANGED <<identidad, multi, conversion>>

LlamaPortalVerificar ==
    \E token \in TokensPedidos, codigo \in CodigosPedidos :
        portal_verificar(token, codigo) /\ UNCHANGED <<identidad, multi, conversion>>

LlamaPortalPDF ==
    \E token \in TokensPedidos : portal_estado_cuenta_pdf(token) /\ UNCHANGED <<identidad, multi, conversion>>

NextPortal ==
    \/ LlamaGenerarLink
    \/ LlamaPortalVerificar
    \/ LlamaPortalPDF
    \/ LlamaAddAbonoParcial

SpecPortal == InitPortal /\ [][NextPortal]_vars

\* The businesses of a process that starts with none.
InitNegocios ==
    /\ facturas = << >>
    /\ abonos = << >>
    /\ reloj = 0
    /\ ultima = Respuesta("", 0, 0, FALSE)
    /\ ida_vuelta = SinIdaVuelta
    /\ ajustes = 0
    /\ pc = [h \in Hilos |-> "fin"]
    /\ loc = [h \in Hilos |-> SinLocales]
    /\ version = 0
    /\ identidad = Admin
    /\ clientes = << >>
    /\ negocios = << >>
    /\ current_sheet_id = NingunaHoja
    /\ hojas = [s \in SheetIds |-> << >>]
    /\ sesion = [h \in Hilos |-> SinSesion]
    /\ conversion = SinConversion

\* The ids of the businesses, and one that no business has.
IDsNegociosPedidos == {negocios[i].id : i \in 1..Len(negocios)} \cup {reloj + 1}

LlamaAddNegocio ==
    \E sheetId \in SheetIds, tic \in BOOLEAN :
        add_negocio([sheetId |-> sheetId], tic) /\ UNCHANGED <<identidad, conversion>>

LlamaUpdateNegocio ==
    \E negocio_id \in IDsNegociosPedidos, sheetId \in SheetIds \cup {NingunaHoja} :
        update_negocio(negocio_id, sheetId) /\ UNCHANGED <<identidad, conversion>>

LlamaDeleteNegocio ==
    \E negocio_id \in IDsNegociosPedidos : delete_negocio(negocio_id) /\ UNCHANGED <<identidad, conversion>>

LlamaActivarNegocio ==
    \E usuario \in Hilos, negocio_id \in IDsNegociosPedidos :
        activar_negocio(usuario, negocio_id) /\ UNCHANGED <<identidad, conversion>>

NextNegocios ==
    \/ LlamaAddNegocio
    \/ LlamaUpdateNegocio
    \/ LlamaDeleteNegocio
    \/ LlamaActivarNegocio

SpecNegocios == InitNegocios /\ [][NextNegocios]_vars

\* Two businesses, created before the clock's origin, each with its
\* spreadsheet, and users who activate a business and create invoices.
InitInquilinos ==
    /\ facturas = << >>
    /\ abonos = << >>
    /\ reloj = 0
    /\ ultima = Respuesta("", 0, 0, FALSE)
    /\ ida_vuelta = SinIdaVuelta
    /\ ajustes = 0
    /\ pc = [h \in Hilos |-> "fin"]
    /\ loc = [h \in Hilos |-> SinLocales]
    /\ version = 0
    /\ identidad = Usuario
    /\ clientes = << >>
    /\ negocios = <<Negocio(-2, HojaA), Negocio(-1, HojaB)>>
    /\ current_sheet_id = HojaA
    /\ hojas = [s \in SheetIds |-> << >>]
    /\ sesion = [h \in Hilos |-> SinSesion]
    /\ conversion = SinConversion

LlamaAddFacturaEnHoja ==
    \E usuario \in Hilos, total \in Totales, otros \in Rebajos :
        add_factura_en_hoja(usuario, DatosFactura(total, 0, otros)) /\ UNCHANGED <<identidad, conversion>>

NextInquilinos == LlamaActivarNegocio \/ LlamaAddFacturaEnHoja

SpecInquilinos == InitInquilinos /\ [][NextInquilinos]_vars

\* Concurrent compensar_documentos requests on that sheet, all of them for
\* the credit note and the first invoice, or for an id that does not exist.
InitCompensarPasos ==
    /\ facturas = [k \in 1..NumPrevias |-> Previa(k)]
    /\ abonos = << >>
    /\ reloj = 0
    /\ ultima = Respuesta("", 0, 0, FALSE)
    /\ ida_vuelta = SinIdaVuelta
    /\ ajustes = 0
    /\ pc = [h \in Hilos |-> "inicio"]
    /\ loc = [h \in Hilos |-> SinLocalesCompensar]
    /\ version = 0
    /\ identidad = Usuario
    /\ clientes = << >>
    /\ UnNegocio

NextCompensarPasos ==
    \E h \in Hilos :
        \/ \E nc_id \in {facturas[1].ID}, factura_id \in {facturas[2].ID, reloj + 1} :
               BuscarNC(h, nc_id, factura_id, 0)
        \/ BuscarFacturaCompensar(h)
        \/ LeerMonto(h)
        \/ EscribirCelda(h)
        \/ LeerNotas(h)
        \/ EscribirNotas(h)
        \/ FallaLlamada(h)

SpecCompensarPasos == InitCompensarPasos /\ [][NextCompensarPasos]_vars

\* Concurrent add_abono requests against a sheet that holds one invoice, as
\* add_factura created it.
InitRace ==
    /\ \E total \in Totales, corfoga \in Rebajos, otros \in Rebajos :
           facturas = <<NuevaFactura(1, DatosFactura(total, corfoga, otros), "FAC", NoID)>>
    /\ abonos = << >>
    /\ reloj = 1
    /\ ultima = Respuesta("add_factura", 200, 1, FALSE)
    /\ ida_vuelta = SinIdaVuelta
    /\ ajustes = 0
    /\ pc = [h \in Hilos |-> "inicio"]
    /\ loc = [h \in Hilos |-> SinLocales]
    /\ version = 0
    /\ identidad = Usuario
    /\ clientes = << >>
    /\ UnNegocio

NextRace ==
    \E h \in Hilos :
        \/ \E id \in IDsFacturasPedidos, monto \in 0..MaxMonto : Buscar(h, id, monto)
        \/ LeerMontoCobrar(h)
        \/ LeerTotalAbonado(h)
        \/ Registrar(h)
        \/ EscribirTotal(h)
        \/ EscribirSaldo(h)
        \/ EscribirPagado(h)
        \/ EscribirFecha(h)
        \/ EscribirEstado(h)

SpecRace == InitRace /\ [][NextRace]_vars

\* One caller of add_abono whose requests may fail at a store call and who
\* then retries, against a sheet that holds one invoice.
NextReintento ==
    \E h \in {1} :
        \/ /\ pc[h] = "inicio"
           /\ \E id \in IDsFacturasPedidos, monto \in 1..MaxMonto : Buscar(h, id, monto)
        \/ Reintenta(h)
        \/ FallaAbono(h)
        \/ LeerMontoCobrar(h)
        \/ LeerTotalAbonado(h)
        \/ Registrar(h)
        \/ EscribirTotal(h)
        \/ EscribirSaldo(h)
        \/ EscribirPagado(h)
        \/ EscribirFecha(h)
        \/ EscribirEstado(h)

SpecReintento == InitRace /\ [][NextReintento]_vars

\* parse_number on every text of up to MaxLargo characters out of two
\* digits, the two separators and a letter.
Alfabeto == {"0", "1", ",", ".", "a"}

Textos == UNION {[1..n -> Alfabeto] : n \in 0..MaxLargo}

InitParse ==
    /\ facturas = << >>
    /\ abonos = << >>
    /\ reloj = 0
    /\ ultima = Respuesta("", 0, 0, FALSE)
    /\ ida_vuelta = SinIdaVuelta
    /\ ajustes = 0
    /\ pc = [h \in Hilos |-> "fin"]
    /\ loc = [h \in Hilos |-> SinLocales]
    /\ version = 0
    /\ identidad = SinIdentidad
    /\ clientes = << >>
    /\ negocios = << >>
    /\ current_sheet_id = NingunaHoja
    /\ hojas = [s \in SheetIds |-> << >>]
    /\ sesion = [h \in Hilos |-> SinSesion]
    /\ \E t \in Textos : conversion = [value |-> t, resultado |-> SinResultado]

NextParse == Convierte

SpecParse == InitParse /\ [][NextParse]_vars

(*=========================== properties ================================*)
Filas == 1..Len(facturas)

TotalAbonadoDe(f) == parse_number(f.TotalAbonado)

SaldoDe(f) == parse_number(f.SaldoPendiente)

\* add_abono or delete_abono has written the balance cells of the row.
Tocada(f) == f.SaldoPendiente # Vacia

Saldada(estado) == estado \in {"Pagado", "Compensado"}

(* C1: after add_abono / delete_abono requests served one at a time, every *)
(* invoice they touched stores a SaldoPendiente that is within 0.01 of     *)
(* max(0, MontoCobrar - TotalAbonado).                                     *)
C1_SaldoConsistente ==
    \A i \in Filas :
        Tocada(facturas[i]) =>
            LET guardado == SaldoDe(facturas[i])
                esperado == Max0(facturas[i].MontoCobrar - TotalAbonadoDe(facturas[i]))
            IN  guardado - esperado <= Tol /\ esperado - guardado <= Tol

\* A reversal has left a stored balance that differs from the clamped one,
\* inside the tolerance.
C1_Testigo ==
    /\ ultima.op = "delete_abono"
    /\ ultima.status = 200
    /\ \E i \in Filas :
        /\ Tocada(facturas[i])
        /\ SaldoDe(facturas[i]) #
               Max0(facturas[i].MontoCobrar - TotalAbonadoDe(facturas[i]))

(* C2: after add_abono / delete_abono requests served one at a time, the   *)
(* sum of Monto over the Abonos rows of an invoice (get_abonos_factura's   *)
(* totalAbonado) equals the TotalAbonado stored on the invoice row.        *)
C2_SumaIgualTotalAbonado ==
    \A i \in Filas : get_abonos_factura(facturas[i].ID) = TotalAbonadoDe(facturas[i])

\* An abono was deleted and another one of the same invoice remains.
C2_Testigo ==
    /\ ultima.op = "delete_abono"
    /\ ultima.status = 200
    /\ ultima.row # 0
    /\ TotalAbonadoDe(facturas[ultima.row]) > 0
    /\ \E k \in 1..Len(abonos) : abonos[k].FacturaID = facturas[ultima.row].ID

(* C3: add_abono is atomic on the invoice row: no two requests pass the    *)
(* overpayment check having read the same TotalAbonado (one of them a      *)
(* stale value), and TotalAbonado never ends above MontoCobrar + 0.01.     *)
Aceptado(h) ==
    \/ pc[h] \in {"escribir_total", "escribir_saldo", "escribir_pagado",
                  "escribir_fecha", "escribir_estado"}
    \/ pc[h] = "fin" /\ loc[h].status = 200

C3_AbonoAtomico ==
    /\ \A p \in Hilos, q \in Hilos :
        (p # q /\ Aceptado(p) /\ Aceptado(q) /\ loc[p].row = loc[q].row)
            => loc[p].version # loc[q].version
    /\ \A i \in Filas : TotalAbonadoDe(facturas[i]) <= facturas[i].MontoCobrar + Tol

(* C4: an add_abono whose amount takes TotalAbonado above MontoCobrar +    *)
(* 0.01 is answered 400 and changes neither the Abonos rows nor any cell   *)
(* of the invoice (TotalAbonado, SaldoPendiente, Estado, Pagado,           *)
(* FechaPago).                                                             *)
C4_SobrepagoRechazado ==
    [][(ultima'.op = "add_abono" /\ ultima'.excede)
          => (ultima'.status = 400 /\ facturas' = facturas /\ abonos' = abonos)]_vars

\* An overpayment was refused on an invoice that already carries payments.
C4_Testigo ==
    /\ ultima.op = "add_abono"
    /\ ultima.excede
    /\ ultima.status = 400
    /\ TotalAbonadoDe(facturas[ultima.row]) > 0

(* C5: a successful add_abono(amount) appends exactly one Abonos row, adds *)
(* the amount to TotalAbonado, stores SaldoPendiente = max(0, MontoCobrar  *)
(* - TotalAbonado), and sets Estado to Pagado (with Pagado TRUE and a      *)
(* FechaPago) exactly when the new balance is <= 0.01, else to Abono       *)
(* Parcial; paying exactly the remaining balance gives Pagado, balance 0.  *)
C5_AbonoExitoso ==
    [][(ultima'.op = "add_abono" /\ ultima'.status = 200) =>
          LET r == ultima'.row
              a == abonos'[Len(abonos')]
              antes == facturas[r]
              despues == facturas'[r]
          IN  /\ abonos' = Append(abonos, a)
              /\ a.Monto > 0
              /\ TotalAbonadoDe(despues) = TotalAbonadoDe(antes) + a.Monto
              /\ despues.SaldoPendiente =
                     Num(Max0(antes.MontoCobrar - TotalAbonadoDe(despues)))
              /\ despues.MontoCobrar = antes.MontoCobrar
              /\ IF SaldoDe(despues) <= Tol
                 THEN /\ despues.Estado = "Pagado"
                      /\ despues.Pagado = "TRUE"
                      /\ despues.FechaPago # ""
                 ELSE despues.Estado = "Abono Parcial"
              /\ (a.Monto = antes.MontoCobrar - TotalAbonadoDe(antes))
                    => (despues.Estado = "Pagado" /\ SaldoDe(despues) = 0)
              /\ \A j \in Filas : j # r => facturas'[j] = facturas[j]]_vars

\* A second payment settled the invoice exactly.
C5_Testigo ==
    /\ ultima.op = "add_abono"
    /\ ultima.status = 200
    /\ Len(abonos) >= 2
    /\ facturas[ultima.row].Estado = "Pagado"
    /\ facturas[ultima.row].SaldoPendiente = Num(0)
    /\ TotalAbonadoDe(facturas[ultima.row]) = facturas[ultima.row].MontoCobrar

(* C6: add_abono followed at once by delete_abono of the abono it created  *)
(* restores the invoice's TotalAbonado, saldoPendiente (as get_facturas    *)
(* reports it) and Estado.                                                 *)
Restaurada ==
    LET f == facturas[ida_vuelta.row]
    IN  /\ TotalAbonadoDe(f) = ida_vuelta.TotalAbonado
        /\ saldoPendiente(f) = ida_vuelta.Saldo
        /\ f.Estado = ida_vuelta.Estado

C7_SaldoNoNegativo == \A i \in Filas : SaldoDe(facturas[i]) >= 0

(* C8: Pagado is TRUE if and only if Estado is Pagado or Compensado, after *)
(* any sequence of completed add_factura, add_abono, delete_abono,         *)
(* registrar_pago and compensar_documentos requests.                       *)
C8_PagadoEnSincronia ==
    \A i \in Filas : (facturas[i].Pagado = "TRUE") <=> Saldada(facturas[i].Estado)

(* C9: Pagado and Compensado are terminal and no request moves an invoice  *)
(* backwards (Abono Parcial to Pendiente, Pagado to Abono Parcial or       *)
(* Pendiente).                                                             *)
Rango(estado) ==
    CASE estado = "Pendiente" -> 0
      [] estado = "Abono Parcial" -> 1
      [] OTHER -> 2

\* As claimed.
C9_TerminalYMonotono ==
    [][\A i \in Filas :
          /\ Saldada(facturas[i].Estado) => facturas'[i].Estado = facturas[i].Estado
          /\ Rango(facturas'[i].Estado) >= Rango(facturas[i].Estado)]_vars

\* As amended: only add_abono and delete_abono take an invoice out of
\* {Pagado, Compensado}, only delete_abono takes one back to Pendiente, and
\* registrar_pago, compensar_documentos and update_factura never lower the
\* rank of a state.
C9_SoloAbonosRetroceden ==
    [][\A i \in Filas :
          /\ (Saldada(facturas[i].Estado) /\ ~Saldada(facturas'[i].Estado))
                => ultima'.op \in {"add_abono", "delete_abono"}
          /\ (facturas[i].Estado # "Pendiente" /\ facturas'[i].Estado = "Pendiente")
                => ultima'.op = "delete_abono"
          /\ Rango(facturas'[i].Estado) < Rango(facturas[i].Estado)
                => ultima'.op \in {"add_abono", "delete_abono"}]_vars

\* registrar_pago has been served on a Compensado invoice, which stays settled.
C9_Testigo ==
    /\ ultima.op = "registrar_pago"
    /\ ultima.row # 0
    /\ facturas[ultima.row].DocumentoRelacionado # NoID
    /\ facturas[ultima.row].Estado = "Pagado"

(* C10: MontoCobrar is set at creation to TotalFactura - CORFOGA -         *)
(* OtrosRebajos and no request changes it afterwards.                      *)
CreadaConMontoNeto ==
    Len(facturas') > Len(facturas) =>
        LET f == facturas'[Len(facturas')]
        IN  f.MontoCobrar = f.TotalFactura - f.CORFOGA - f.OtrosRebajos

\* As claimed.
C10_MontoCobrarInmutable ==
    [][/\ CreadaConMontoNeto
       /\ \A i \in Filas : facturas'[i].MontoCobrar = facturas[i].MontoCobrar]_vars

\* As amended: only update_factura, which recomputes it from the amount
\* fields, and registrar_pago with a partial amount, which lowers it, change it.
C10_MontoCobrarSoloAjustes ==
    [][/\ CreadaConMontoNeto
       /\ \A i \in Filas :
            facturas'[i].MontoCobrar # facturas[i].MontoCobrar =>
                \/ /\ ultima'.op = "update_factura"
                   /\ facturas'[i].MontoCobrar =
                          facturas'[i].TotalFactura - facturas'[i].CORFOGA
                              - facturas'[i].OtrosRebajos
                \/ /\ ultima'.op = "registrar_pago_parcial"
                   /\ facturas'[i].MontoCobrar < facturas[i].MontoCobrar]_vars

\* An invoice with other deductions went through an abono and a
\* compensation and still carries the amount it was created with.
C10_Testigo ==
    /\ ultima.op = "compensar_documentos"
    /\ ultima.status = 200
    /\ \E i \in Filas :
        /\ Tocada(facturas[i])
        /\ facturas[i].Estado = "Compensado"
        /\ facturas[i].OtrosRebajos > 0
        /\ facturas[i].MontoCobrar =
               facturas[i].TotalFactura - facturas[i].CORFOGA - facturas[i].OtrosRebajos

(* C11: registrar_pago without a partial amount leaves the invoice as an   *)
(* add_abono of its remaining balance would: Estado Pagado, Pagado TRUE,   *)
(* TotalAbonado equal to MontoCobrar, SaldoPendiente 0, and one more       *)
(* Abonos row whose Monto is the balance that remained.                    *)
C11_PagoTotalComoAbono ==
    [][(ultima'.op = "registrar_pago" /\ ultima'.row # 0) =>
          LET antes == facturas[ultima'.row]
              despues == facturas'[ultima'.row]
          IN  /\ despues.Estado = "Pagado"
              /\ despues.Pagado = "TRUE"
              /\ TotalAbonadoDe(despues) = despues.MontoCobrar
              /\ saldoPendiente(despues) = 0
              /\ Len(abonos') = Len(abonos) + 1
              /\ abonos'[Len(abonos')].FacturaID = antes.ID
              /\ abonos'[Len(abonos')].Monto =
                     antes.MontoCobrar - TotalAbonadoDe(antes)]_vars

(* C12: after a successful compensar_documentos(ncId, facturaId) the       *)
(* documents with those ids are both Compensado with Pagado TRUE and the   *)
(* same FechaPago, the credit note's DocumentoRelacionado is facturaId and *)
(* the invoice's is ncId, and the Notas of each keep what they held and    *)
(* end with a note that names the other id.                                *)
NotaAgregada(antes, despues, id) ==
    /\ Len(despues.Notas) > Len(antes.Notas)
    /\ SubSeq(despues.Notas, 1, Len(antes.Notas)) = antes.Notas
    /\ despues.Notas[Len(despues.Notas)].id = id

CompensadoCon(antes, despues, id) ==
    /\ despues.Estado = "Compensado"
    /\ despues.Pagado = "TRUE"
    /\ despues.FechaPago = Hoy
    /\ despues.DocumentoRelacionado = id
    /\ NotaAgregada(antes, despues, id)

C12_CompensadosYCruzados ==
    [][(ultima'.op = "compensar_documentos" /\ ultima'.status = 200) =>
          LET c == ultima'.compensar
          IN  /\ \E i \in Filas : facturas[i].ID = c.nc_id
              /\ \E i \in Filas : facturas[i].ID = c.factura_id
              /\ \A i \in Filas :
                    /\ facturas[i].ID = c.nc_id =>
                          CompensadoCon(facturas[i], facturas'[i], c.factura_id)
                    /\ facturas[i].ID = c.factura_id =>
                          CompensadoCon(facturas[i], facturas'[i], c.nc_id)]_vars

(* C13: the montoCompensado that compensar_documentos returns is the       *)
(* amount asked for when it is not 0, and otherwise the smaller, in        *)
(* absolute value, of the two remaining balances MontoCobrar -             *)
(* TotalAbonado, also when the invoice has abonos.                         *)
SaldoRestante(f) == f.MontoCobrar - TotalAbonadoDe(f)

C13_MontoCompensado ==
    [][(ultima'.op = "compensar_documentos" /\ ultima'.status = 200) =>
          LET c == ultima'.compensar
              f_nc == facturas[c.row_nc]
              f_fac == facturas[ultima'.row]
          IN  c.montoCompensado =
                  IF c.monto_pedido # 0 THEN c.monto_pedido
                  ELSE Min(Abs(SaldoRestante(f_nc)), Abs(SaldoRestante(f_fac)))]_vars

(* C15: compensar_documentos leaves the balance arithmetic alone: it       *)
(* changes no Abonos row, no TotalAbonado, SaldoPendiente or MontoCobrar   *)
(* cell of any row, and no cell at all of the rows other than the two it   *)
(* resolved for the credit note and the invoice.                           *)
MismoSaldo(antes, despues) ==
    /\ despues.TotalAbonado = antes.TotalAbonado
    /\ despues.SaldoPendiente = antes.SaldoPendiente
    /\ despues.MontoCobrar = antes.MontoCobrar

Existe(id) == \E i \in Filas : facturas[i].ID = id

C14_ParAtomico ==
    LET nc == facturas[1]
        fac == facturas[2]
    IN  /\ (nc.Estado = "Compensado") <=> (fac.Estado = "Compensado")
        /\ (nc.DocumentoRelacionado = fac.ID) <=> (fac.DocumentoRelacionado = nc.ID)

(*----------------------------- aging report ----------------------------*)
\* The row is the first one of the sheet with its id.
Primera(i) == \A j \in 1..(i - 1) : facturas[j].ID # facturas[i].ID

\* An open invoice: not a credit note, not paid or compensated, with a
\* balance left.
Abierta(r) ==
    /\ r.TipoDocumento # "NC"
    /\ r.Pagado # "TRUE"
    /\ ~Saldada(r.Estado)
    /\ r.MontoCobrar - TotalAbonadoDe(r) > 0

\* The entries of the report for an id: the category and the position of each.
Entradas(reporte, id) ==
    {e \in (DOMAIN reporte.cartera) \X (1..Len(facturas)) :
        /\ e[2] <= Len(reporte.cartera[e[1]].facturas)
        /\ reporte.cartera[e[1]].facturas[e[2]].id = id}

RECURSIVE SumaSaldos(_)
SumaSaldos(lista) ==
    IF lista = << >> THEN 0 ELSE Head(lista).saldoPendiente + SumaSaldos(Tail(lista))

\* The balances of the open invoices, each id taken once, from row i on.
RECURSIVE SumaAbiertas(_)
SumaAbiertas(i) ==
    IF i > Len(facturas) THEN 0
    ELSE (IF Primera(i) /\ Abierta(facturas[i])
          THEN facturas[i].MontoCobrar - TotalAbonadoDe(facturas[i]) ELSE 0)
         + SumaAbiertas(i + 1)

(* C17: in the aging report an open invoice with d = day of the report -   *)
(* due date is listed under 0-30 when d <= 30 (also when d is negative),   *)
(* under 31-60 when 31 <= d <= 60, under 61-90 when 61 <= d <= 90 and      *)
(* under 90+ when d > 90, with diasVencido = max(0, d).                    *)
C17_Categorias ==
    ultima.op = "get_antiguedad_cartera" =>
        \A i \in Filas :
            (Primera(i) /\ Abierta(facturas[i]) /\ facturas[i].FechaVencimiento # SinFecha) =>
                LET d == ultima.reporte.hoy - facturas[i].FechaVencimiento[1]
                    esperada == CASE d <= 30 -> "corriente"
                                  [] d >= 31 /\ d <= 60 -> "dias_31_60"
                                  [] d >= 61 /\ d <= 90 -> "dias_61_90"
                                  [] d > 90 -> "dias_90_mas"
                IN  \E k \in 1..Len(ultima.reporte.cartera[esperada].facturas) :
                        LET info == ultima.reporte.cartera[esperada].facturas[k]
                        IN  /\ info.id = facturas[i].ID
                            /\ info.diasVencido = (IF d > 0 THEN d ELSE 0)

\* A report lists under 0-30 an invoice due exactly 30 days before and one
\* that is not due yet.
C17_Testigo ==
    /\ ultima.op = "get_antiguedad_cartera"
    /\ \E i \in Filas, j \in Filas :
          /\ Abierta(facturas[i]) /\ Abierta(facturas[j])
          /\ facturas[i].FechaVencimiento = Num(ultima.reporte.hoy - 30)
          /\ facturas[j].FechaVencimiento # SinFecha
          /\ facturas[j].FechaVencimiento[1] > ultima.reporte.hoy
          /\ Entradas(ultima.reporte, facturas[i].ID) # {}
          /\ Entradas(ultima.reporte, facturas[j].ID) # {}
          /\ ultima.reporte.cartera.corriente.cantidad >= 2

(* C18: when rows of the sheet share an id, the aging report counts the    *)
(* invoice once: an id whose first row is an open invoice has exactly one  *)
(* entry in the report, with that row's balance, and the category totals,  *)
(* the grand total and the count of pending invoices take each id once.    *)
C18_UnaVezPorId ==
    ultima.op = "get_antiguedad_cartera" =>
        LET reporte == ultima.reporte
            abiertas == {i \in Filas : Primera(i) /\ Abierta(facturas[i])}
        IN  /\ \A i \in Filas :
                  Primera(i) =>
                      IF Abierta(facturas[i])
                      THEN /\ Cardinality(Entradas(reporte, facturas[i].ID)) = 1
                           /\ \A e \in Entradas(reporte, facturas[i].ID) :
                                 reporte.cartera[e[1]].facturas[e[2]].saldoPendiente =
                                     facturas[i].MontoCobrar - TotalAbonadoDe(facturas[i])
                      ELSE Entradas(reporte, facturas[i].ID) = {}
            /\ reporte.facturasPendientes = Cardinality(abiertas)
            /\ reporte.totalCartera = SumaAbiertas(1)
            /\ \A key \in DOMAIN reporte.cartera :
                  /\ reporte.cartera[key].total = SumaSaldos(reporte.cartera[key].facturas)
                  /\ reporte.cartera[key].cantidad = Len(reporte.cartera[key].facturas)

\* The report was made from a sheet in which two open rows have the same
\* id and different balances.
C18_Testigo ==
    /\ ultima.op = "get_antiguedad_cartera"
    /\ \E i \in Filas, j \in Filas :
          /\ i < j
          /\ Primera(i)
          /\ facturas[i].ID = facturas[j].ID
          /\ Abierta(facturas[i]) /\ Abierta(facturas[j])
          /\ facturas[i].MontoCobrar - TotalAbonadoDe(facturas[i])
                 # facturas[j].MontoCobrar - TotalAbonadoDe(facturas[j])
          /\ ultima.reporte.facturasPendientes >= 1

(* C19: detectar_tipo_documento yields NC exactly for a code of at least 8 *)
(* characters whose 7th and 8th characters are "0" and "3", and FAC for    *)
(* every other code, shorter ones included; every row that                 *)
(* add_facturas_batch creates stores the type so determined by its code.   *)
EsNotaCredito(consecutivo) ==
    /\ Len(consecutivo) >= 8
    /\ consecutivo[7] = "0"
    /\ consecutivo[8] = "3"

C19_TipoPorCodigo ==
    /\ \A c \in Consecutivos :
          detectar_tipo_documento(c) = (IF EsNotaCredito(c) THEN "NC" ELSE "FAC")
    /\ \A i \in Filas :
          facturas[i].TipoDocumento =
              (IF EsNotaCredito(facturas[i].Consecutivo) THEN "NC" ELSE "FAC")

\* The sheet holds a credit note, and an invoice whose code has "03" in it
\* but not as its 7th and 8th characters.
C19_Testigo ==
    /\ ultima.op = "add_facturas_batch"
    /\ \E i \in Filas : facturas[i].TipoDocumento = "NC"
    /\ \E i \in Filas :
          /\ facturas[i].TipoDocumento = "FAC"
          /\ \E k \in 1..(Len(facturas[i].Consecutivo) - 1) :
                /\ facturas[i].Consecutivo[k] = "0"
                /\ facturas[i].Consecutivo[k + 1] = "3"

\* C20: a request changes the stored sheets only when it carries a token
\* that verify_token accepts.
C20_SoloAutenticado ==
    [][(facturas' # facturas \/ abonos' # abonos) => identidad' # SinIdentidad]_vars

\* C21: a portal answer carries the data of a client only when the request
\* presented the token stored in that client's row, and every document it
\* lists is one of that client.
C21_PortalSoloConToken ==
    (/\ ultima.op \in {"portal_verificar", "portal_estado_cuenta_pdf"}
     /\ ultima.portal.cliente # SinTexto)
    => /\ \E i \in 1..Len(clientes) :
             /\ clientes[i].ID = ultima.portal.cliente
             /\ clientes[i].TokenPortal = ultima.portal.token
       /\ \A d \in ultima.portal.documentos : d.ClienteID = ultima.portal.cliente

\* C22: whenever a business exists, current_sheet_id is the sheetId of
\* exactly one of the businesses.
C22_UnNegocioActual ==
    negocios # << >>
    => Cardinality({i \in 1..Len(negocios) : negocios[i].sheetId = current_sheet_id}) = 1

\* C23: a ledger operation changes the spreadsheet that current_sheet_id
\* names, the one activated last by any user, whoever issues it; so, with
\* two users who activated different businesses, the operation of one is
\* executed against the spreadsheet of the other (C23_Testigo).
C23_OperacionEnHojaActual ==
    [][\A s \in SheetIds : hojas'[s] # hojas[s] => s = current_sheet_id]_vars

\* Two users activated different businesses, and the invoice that one of
\* them then created went to the spreadsheet the other one activated.
C23_Testigo ==
    /\ ultima.op = "add_factura"
    /\ ultima.status = 200
    /\ \E u \in Hilos, v \in Hilos :
          /\ u = ultima.usuario
          /\ sesion[u].negocio # NingunaHoja
          /\ sesion[v].negocio # NingunaHoja
          /\ sesion[u].negocio # sesion[v].negocio
          /\ ultima.hoja = sesion[v].negocio
          /\ hojas[sesion[v].negocio] # << >>
          /\ hojas[sesion[u].negocio] = << >>

\* C24: no two rows of Facturas have the same sequence code, compared
\* with the leading zeros stripped.
C24_CodigosUnicos ==
    \A i \in Filas, j \in Filas :
        lstrip0(facturas[i].Consecutivo) = lstrip0(facturas[j].Consecutivo) => i = j

\* C25: when a request that failed at a store call was retried and the
\* retry was answered 200, Abonos holds one payment of the invoice, of the
\* amount asked for, and the payments add up to the invoice's TotalAbonado.
C25_ReintentoSeguro ==
    \A h \in Hilos :
        (pc[h] = "fin" /\ loc[h].status = 200 /\ loc[h].fallas > 0)
        => /\ Cardinality({i \in 1..Len(abonos) :
                              abonos[i].FacturaID = loc[h].factura_id}) = 1
           /\ SumaMontos(abonos, loc[h].factura_id) = loc[h].monto
           /\ SumaMontos(abonos, loc[h].factura_id)
                  = TotalAbonadoDe(facturas[loc[h].row])

\* The number a text denotes under the rule of C26: what is neither a
\* digit nor a separator is stripped; the decimal point is the separator
\* that occurs last when both occur, the comma when only commas occur; the
\* other separator is dropped wherever it occurs; the digits before the
\* decimal point are the integer part and the ones after it the fraction.
\* A text with no digit, or with the decimal point more than once, denotes
\* no number.
Separadores(t) == {i \in 1..Len(t) : t[i] \in {",", "."}}

PuntoDecimal(t) ==
    IF Separadores(t) = {} THEN "."
    ELSE t[CHOOSE i \in Separadores(t) : \A j \in Separadores(t) : j <= i]

Denotado(value) ==
    LET t == SelectSeq(value, LAMBDA c : EsDigito(c) \/ c \in {",", "."})
        dec == PuntoDecimal(t)
        u == SelectSeq(t, LAMBDA c : EsDigito(c) \/ c = dec)
        puntos == {i \in 1..Len(u) : u[i] = dec}
        digitos == SelectSeq(u, EsDigito)
    IN  IF digitos = << >> \/ Cardinality(puntos) > 1 THEN Cero
        ELSE IF puntos = {} THEN Decimal(FALSE, u, << >>)
        ELSE LET p == CHOOSE i \in puntos : TRUE
             IN  Decimal(FALSE, SubSeq(u, 1, p - 1), SubSeq(u, p + 1, Len(u)))

\* C26: parse_number returns the number that the text denotes under the
\* decimal-separator rule, and 0 when it denotes none.
C26_ReglaDecimal ==
    conversion.resultado # SinResultado => conversion.resultado = Denotado(conversion.value)

\* A text with both separators, the comma last, was converted to a number
\* with a fraction.
C26_Testigo ==
    /\ conversion.resultado # SinResultado
    /\ Contiene(conversion.value, ",")
    /\ Contiene(conversion.value, ".")
    /\ rfind(conversion.value, ",") > rfind(conversion.value, ".")
    /\ conversion.resultado.exp > 0
    /\ conversion.resultado.num > 10

\* C27: no two invoices have the same id, no two payments have the same id
\* and no two businesses have the same id.
C27_IdsUnicos ==
    /\ \A i \in 1..Len(facturas), j \in 1..Len(facturas) :
          facturas[i].ID = facturas[j].ID => i = j
    /\ \A i \in 1..Len(abonos), j \in 1..Len(abonos) :
          abonos[i].ID = abonos[j].ID => i = j
    /\ \A i \in 1..Len(negocios), j \in 1..Len(negocios) :
          negocios[i].id = negocios[j].id => i = j

\* C28: add_abono, update_factura and registrar_pago change no row but the
\* one whose ID is the id asked for, and compensar_documentos none but the
\* rows whose ID is one of the two ids asked for.
C28_SoloLaFilaDelId ==
    [][/\ (/\ ultima'.op \in {"add_abono", "update_factura", "registrar_pago",
                             "registrar_pago_parcial"}
           /\ ultima'.status = 200)
          => \A i \in Filas :
                facturas'[i] # facturas[i] => facturas[i].ID = ultima'.factura_id
       /\ (ultima'.op = "compensar_documentos" /\ ultima'.status = 200)
          => \A i \in Filas :
                facturas'[i] # facturas[i]
                   => facturas[i].ID \in {ultima'.compensar.nc_id,
                                          ultima'.compensar.factura_id}]_vars

\* C29: the totals per category of the Excel export, of the PDF export and
\* of the dashboard are those of the JSON report on the same rows and day.
TotalesJSON(hoy) ==
    [key \in DOMAIN SinTotales |-> Reporte(facturas, hoy).cartera[key].total]

C29_ClasificadoresDeAcuerdo ==
    ultima.op \in {"export_antiguedad_excel", "export_antiguedad_pdf", "get_dashboard_stats"}
    => ultima.totales = TotalesJSON(ultima.reporte.hoy)

(* C30: after any sequence of add_abono and delete_abono requests on an    *)
(* invoice that was never compensated, its Estado is Pendiente exactly     *)
(* when TotalAbonado is 0, Pagado exactly when MontoCobrar - TotalAbonado  *)
(* is at most 0.01 with TotalAbonado > 0, and Abono Parcial otherwise.     *)
EstadoSegunSaldo(r) ==
    IF parse_number(r.TotalAbonado) = 0 THEN "Pendiente"
    ELSE IF r.MontoCobrar - parse_number(r.TotalAbonado) <= Tol THEN "Pagado"
    ELSE "Abono Parcial"

C30_EstadoSegunSaldo == \A i \in Filas : facturas[i].Estado = EstadoSegunSaldo(facturas[i])

====
